---- MODULE Spec2Model ----
(***************************************************************************)
(* Exchange-rate aggregator: the reference-rate resolver (Frankfurter),    *)
(* the three card-network providers (Mastercard, Visa, Amex) with their    *)
(* one-hour caches, the per-day series assembler, the /api/rates,          *)
(* /api/rate/:provider and /api/history handlers, and the shared browser   *)
(* session of the Visa scraper.                                            *)
(*                                                                         *)
(* JavaScript values are records [t, n, d, s]:                             *)
(*   t = "num"   the rational n/d (d > 0, lowest terms)                    *)
(*   t = "inf"   +Infinity (n = 1) or -Infinity (n = -1)                   *)
(*   t = "nan" | "undef" | "null"                                          *)
(*   t = "str"   the string whose characters are the sequence s            *)
(* IEEE rounding is not modelled: arithmetic is exact on rationals.        *)
(***************************************************************************)
EXTENDS Integers, Sequences, FiniteSets, TLC

VARIABLES
    now,        \* Date.now(), in milliseconds
    ticks,      \* number of clock advances so far (bounds the run)
    cache,      \* provider -> (cache key -> [value, timestamp]); one Map per provider module
    stored,     \* history: provider -> (cache key -> the last cache.set made for it)
    calls,      \* call slot -> the getRate invocation running in it
    fx,         \* the reference provider: what it answers per date and for /latest
    started,    \* number of getRate invocations made by independent callers so far
    midLog,     \* the getMidMarketRate invocations finished so far, with their outcomes
    ser,        \* the getSeries invocation (one at a time)
    req,        \* the /api/rates request (one at a time)
    web         \* Visa's shared browser session and the calls that are using it

vars == <<now, ticks, cache, stored, calls, fx, started, midLog, ser, req, web>>

-----------------------------------------------------------------------------
(* Bounds of the model *)

MaxTicks == 2       \* clock advances in a run
MaxLog == 3         \* getMidMarketRate invocations recorded in a run
MaxCalls == 2       \* concurrent getRate invocations made by independent callers
MaxStarted == 3     \* getRate invocations made by independent callers in a run
MaxSpan == 5        \* days in a series

-----------------------------------------------------------------------------
(* JavaScript numbers and values *)

Abs(x) == IF x < 0 THEN -x ELSE x

RECURSIVE GCD(_, _)
GCD(a, b) == IF b = 0 THEN a ELSE GCD(b, a % b)

JsNum(n, d) ==
    LET g == GCD(Abs(n), Abs(d))
        sg == IF d < 0 THEN -1 ELSE 1
    IN [t |-> "num", n |-> sg * (n \div g), d |-> sg * (d \div g), s |-> <<>>]

Int2Js(k)  == JsNum(k, 1)
NaN        == [t |-> "nan", n |-> 0, d |-> 1, s |-> <<>>]
Undefined  == [t |-> "undef", n |-> 0, d |-> 1, s |-> <<>>]
Null       == [t |-> "null", n |-> 0, d |-> 1, s |-> <<>>]
Infinity(sg) == [t |-> "inf", n |-> sg, d |-> 1, s |-> <<>>]
Str(chars) == [t |-> "str", n |-> 0, d |-> 1, s |-> chars]

Sign(k) == IF k < 0 THEN -1 ELSE 1

\* ToNumber on the operand of an arithmetic operator
ToNumber(v) ==
    CASE v.t = "undef" -> NaN
      [] v.t = "null"  -> Int2Js(0)
      [] v.t = "str"   -> NaN
      [] OTHER         -> v

JsMul(a, b) ==
    LET x == ToNumber(a)
        y == ToNumber(b)
    IN IF x.t = "nan" \/ y.t = "nan" THEN NaN
       ELSE IF x.t = "inf" \/ y.t = "inf"
            THEN IF x.n = 0 \/ y.n = 0 THEN NaN ELSE Infinity(Sign(x.n) * Sign(y.n))
            ELSE JsNum(x.n * y.n, x.d * y.d)

JsDiv(a, b) ==
    LET x == ToNumber(a)
        y == ToNumber(b)
    IN IF x.t = "nan" \/ y.t = "nan" THEN NaN
       ELSE IF x.t = "inf"
            THEN IF y.t = "inf" THEN NaN ELSE Infinity(Sign(x.n) * Sign(y.n))
            ELSE IF y.t = "inf" THEN Int2Js(0)
            ELSE IF y.n = 0
                 THEN IF x.n = 0 THEN NaN ELSE Infinity(Sign(x.n))
                 ELSE JsNum(x.n * y.d, x.d * y.n)

JsAdd(a, b) ==
    LET x == ToNumber(a)
        y == ToNumber(b)
    IN IF x.t = "nan" \/ y.t = "nan" THEN NaN
       ELSE IF x.t = "inf"
            THEN IF y.t = "inf" /\ y.n # x.n THEN NaN ELSE x
            ELSE IF y.t = "inf" THEN y
            ELSE JsNum(x.n * y.d + y.n * x.d, x.d * y.d)

JsNeg(a) ==
    LET x == ToNumber(a)
    IN IF x.t = "nan" THEN NaN ELSE [x EXCEPT !.n = -x.n]

JsSub(a, b) == JsAdd(a, JsNeg(b))

\* the truthiness of a value in an `if (v)` or `v ? a : b`
Truthy(v) ==
    CASE v.t = "num" -> v.n # 0
      [] v.t = "inf" -> TRUE
      [] v.t = "str" -> Len(v.s) > 0
      [] OTHER       -> FALSE

\* typeof r === 'number' && !Number.isNaN(r)
IsNumberNotNaN(v) == v.t \in {"num", "inf"}

\* a finite number
IsFinite(v) == v.t = "num"

-----------------------------------------------------------------------------
(* parseFloat: optional whitespace, optional sign, digits with an optional *)
(* fraction; the longest such prefix is the value, NaN when there is none. *)
(* (Exponents are not modelled; no payload of the model holds one.)        *)

DigitOf == ("0" :> 0) @@ ("1" :> 1) @@ ("2" :> 2) @@ ("3" :> 3) @@ ("4" :> 4) @@
           ("5" :> 5) @@ ("6" :> 6) @@ ("7" :> 7) @@ ("8" :> 8) @@ ("9" :> 9)

IsDigit(c) == c \in DOMAIN DigitOf

RECURSIVE Pow10(_)
Pow10(k) == IF k = 0 THEN 1 ELSE 10 * Pow10(k - 1)

\* the first index >= i of s that holds no whitespace
RECURSIVE SkipWs(_, _)
SkipWs(s, i) == IF i <= Len(s) /\ s[i] = " " THEN SkipWs(s, i + 1) ELSE i

\* the first index >= i of s that holds no digit
RECURSIVE DigitEnd(_, _)
DigitEnd(s, i) == IF i <= Len(s) /\ IsDigit(s[i]) THEN DigitEnd(s, i + 1) ELSE i

\* the number written by the digits s[i..j]
RECURSIVE DigitsVal(_, _, _)
DigitsVal(s, i, j) == IF j < i THEN 0 ELSE 10 * DigitsVal(s, i, j - 1) + DigitOf[s[j]]

ParseFloatStr(s) ==
    LET i0 == SkipWs(s, 1)
        signed == i0 <= Len(s) /\ s[i0] \in {"-", "+"}
        sg == IF signed /\ s[i0] = "-" THEN -1 ELSE 1
        i1 == IF signed THEN i0 + 1 ELSE i0
        e1 == DigitEnd(s, i1)
        dot == e1 <= Len(s) /\ s[e1] = "."
        e2 == IF dot THEN DigitEnd(s, e1 + 1) ELSE e1
        nInt == e1 - i1
        nFrac == IF dot THEN e2 - (e1 + 1) ELSE 0
    IN IF nInt = 0 /\ nFrac = 0 THEN NaN
       ELSE JsNum(sg * (DigitsVal(s, i1, e1 - 1) * Pow10(nFrac)
                        + (IF dot THEN DigitsVal(s, e1 + 1, e2 - 1) ELSE 0)),
                  Pow10(nFrac))

ParseFloat(v) ==
    CASE v.t = "str" -> ParseFloatStr(v.s)
      [] v.t = "num" -> v
      [] v.t = "inf" -> v
      [] OTHER       -> NaN

-----------------------------------------------------------------------------
(* Calendar: new Date(s + 'T00:00:00Z'), setUTCDate(getUTCDate() +/- 1) and *)
(* the YYYY-MM-DD formatting, over the first months of 2025.  A date       *)
(* string is <<year, month, day>>; a Date is its day number in the year.   *)

MonthLen == <<31, 28, 31>>

RECURSIVE DaysBefore(_)
DaysBefore(m) == IF m <= 1 THEN 0 ELSE MonthLen[m - 1] + DaysBefore(m - 1)

ToDate(s) == DaysBefore(s[2]) + s[3]

RECURSIVE FmtFrom(_, _)
FmtFrom(m, rest) ==
    IF rest <= MonthLen[m] THEN <<2025, m, rest>> ELSE FmtFrom(m + 1, rest - MonthLen[m])

FmtDate(n) == FmtFrom(1, n)

\* yesterday.setUTCDate(yesterday.getUTCDate() - 1); toISOString().split('T')[0]
YesterdayStr(date) == FmtDate(ToDate(date) - 1)

-----------------------------------------------------------------------------
(* The reference provider (Frankfurter) and getMidMarketRate *)

Currencies == {"EUR", "USD", "JPY"}

\* a rates object of the provider: EUR -> currency; a currency it lacks reads undefined
RateTable(usd, jpy) ==
    [c \in Currencies |-> CASE c = "USD" -> usd [] c = "JPY" -> jpy [] OTHER -> Undefined]

NoTable == RateTable(Undefined, Undefined)

\* what the provider answers to one GET
FxOk(table) == [status |-> "ok", hasRates |-> TRUE, rates |-> table]
FxNoRates   == [status |-> "ok", hasRates |-> FALSE, rates |-> NoTable]
FxNotFound  == [status |-> "404", hasRates |-> FALSE, rates |-> NoTable]
FxFailed    == [status |-> "err", hasRates |-> FALSE, rates |-> NoTable]

\* axios.get(url, {params: {from: 'EUR', to}}): the answer holds the currencies asked for
AxiosGet(resp, to) ==
    [resp EXCEPT !.rates = [c \in Currencies |-> IF c \in to THEN resp.rates[c] ELSE Undefined]]

\* the `to` parameter of the dated request
DatedTo(base, quote) ==
    IF base = "EUR" THEN {quote} ELSE IF quote = "EUR" THEN {base} ELSE {base, quote}

\* the `to` parameter of the /latest request
LatestTo(base, quote) == IF base = "EUR" THEN {quote} ELSE {base, quote}

DatedRuleSwapped(rates, base, quote) ==
    IF base = "EUR" THEN rates[quote]
    ELSE IF quote = "EUR" THEN JsDiv(Int2Js(1), rates[base])
    ELSE JsDiv(rates[base], rates[quote])

\* the rate read off the dated answer
DatedRule(rates, base, quote) ==
    IF base = "EUR" THEN rates[quote]
    ELSE IF quote = "EUR" THEN JsDiv(Int2Js(1), rates[base])
    ELSE JsDiv(rates[quote], rates[base])

LatestRuleNotInverted(rates, base, quote) ==
    IF base = "EUR" THEN rates[quote]
    ELSE IF quote = "EUR" THEN rates[base]
    ELSE JsDiv(rates[quote], rates[base])

\* the rate read off the /latest answer
LatestRule(rates, base, quote) ==
    IF base = "EUR" THEN rates[quote]
    ELSE IF quote = "EUR" THEN JsDiv(Int2Js(1), rates[base])
    ELSE JsDiv(rates[quote], rates[base])

MidReturn(v, n) == [kind |-> "return", value |-> v, calls |-> n, err |-> "none"]
MidThrow(e, n)  == [kind |-> "throw", value |-> Undefined, calls |-> n, err |-> e]

IsNotFoundOrFailed(resp) == resp.status # "ok"

\* does the catch block take the fallback: error.response?.status === 404
IsNotFound(resp) == resp.status = "404"

SameCurrencyOnlyEur(base, quote) == base = quote /\ base = "EUR"

\* if (base === quote) return 1.0
SameCurrency(base, quote) == base = quote

\* getMidMarketRate(date, base, quote) against the provider w: its outcome and the
\* number of transport calls it made.  err = "wrapped" is the Error thrown at the end
\* of the catch block, err = "raw" an exception thrown inside the catch block.
GetMidMarketRate(w, date, base, quote) ==
    IF SameCurrency(base, quote) THEN MidReturn(Int2Js(1), 0)
    ELSE LET r1 == AxiosGet(w.dated[date], DatedTo(base, quote))
         IN IF r1.status = "ok"
            THEN IF r1.hasRates
                 THEN MidReturn(DatedRule(r1.rates, base, quote), 1)
                 ELSE MidThrow("wrapped", 1)
            ELSE IF IsNotFound(r1)
                 THEN LET r2 == AxiosGet(w.latest, LatestTo(base, quote))
                      IN IF r2.status = "ok" /\ r2.hasRates
                         THEN MidReturn(LatestRule(r2.rates, base, quote), 2)
                         ELSE MidThrow("raw", 2)
                 ELSE MidThrow("wrapped", 1)

-----------------------------------------------------------------------------
(* The card providers' endpoints and the three normalizers.  A payload is  *)
(* [ok, hasData, bill, rate, fee, entries]: ok = FALSE is a request that   *)
(* failed (timeout, non-200, body that is no JSON); hasData says whether   *)
(* the object that holds the fields is there (data.data for Mastercard,    *)
(* data.originalValues for Visa); bill, rate = Mastercard's crdhldBillAmt  *)
(* and conversionRate; fee = Visa's toAmountWithAdditionalFee; entries =   *)
(* the array Amex answers with.                                            *)

Providers == {"mc", "visa", "amex"}

Payload(ok, hasData, bill, rate, fee, entries) ==
    [ok |-> ok, hasData |-> hasData, bill |-> bill, rate |-> rate, fee |-> fee,
     entries |-> entries]

McPayload(bill, rate) == Payload(TRUE, TRUE, bill, rate, Undefined, <<>>)
VisaPayload(fee)      == Payload(TRUE, TRUE, Undefined, Undefined, fee, <<>>)
AmexPayload(entries)  == Payload(TRUE, TRUE, Undefined, Undefined, Undefined, entries)
NoDataPayload         == Payload(TRUE, FALSE, Undefined, Undefined, Undefined, <<>>)
FailedPayload         == Payload(FALSE, FALSE, Undefined, Undefined, Undefined, <<>>)

\* one element of Amex's array; consumer holds [code, pv]: submissionCurrencyCode and
\* percentageVariance
AmexEntry(sc, consumer) == [sc |-> sc, hasConsumer |-> TRUE, consumer |-> consumer]
AmexEntryBare(sc)       == [sc |-> sc, hasConsumer |-> FALSE, consumer |-> <<>>]
Variance(code, pv)      == [code |-> code, pv |-> pv]

\* what a fetch function hands to getRate: its value, and (history) how it came to it:
\* "rate" a computed rate, "unsupported" the early `return null`, "caught" the catch block
Fetched(v, why) == [value |-> v, why |-> why]

\* a normalizer that prefers the stated per-unit rate to the converted total
GetMastercardRateViaAPIUnitFirst(resp, amount) ==
    LET converted == ParseFloat(resp.bill)
        perUnit == ParseFloat(resp.rate)
    IN IF ~resp.ok \/ ~resp.hasData THEN Fetched(Null, "caught")
       ELSE IF Truthy(resp.rate) /\ perUnit.t # "nan" THEN Fetched(perUnit, "rate")
            ELSE IF Truthy(resp.bill) /\ converted.t # "nan" /\ amount > 0
                 THEN Fetched(JsDiv(converted, Int2Js(amount)), "rate")
                 ELSE Fetched(Null, "caught")

\* getMastercardRateViaAPI
GetMastercardRateViaAPI(resp, amount) ==
    LET converted == ParseFloat(resp.bill)
        perUnit == ParseFloat(resp.rate)
    IN IF ~resp.ok \/ ~resp.hasData THEN Fetched(Null, "caught")
       ELSE IF Truthy(resp.bill) /\ converted.t # "nan" /\ amount > 0
            THEN Fetched(JsDiv(converted, Int2Js(amount)), "rate")
            ELSE IF Truthy(resp.rate) /\ perUnit.t # "nan"
                 THEN Fetched(perUnit, "rate")
                 ELSE Fetched(Null, "caught")

\* getVisaRateViaPlaywright
GetVisaRateViaPlaywright(resp, amount) ==
    LET converted == ParseFloat(resp.fee)
    IN IF ~resp.ok \/ ~resp.hasData THEN Fetched(Null, "caught")
       ELSE IF Truthy(resp.fee) /\ converted.t # "nan"
            THEN Fetched(IF amount > 0 THEN JsDiv(converted, Int2Js(amount)) ELSE converted,
                         "rate")
            ELSE Fetched(Null, "caught")

\* currencyToCountry[base] || 'ICC'
CurrencyToCountry ==
    [c \in {"EUR", "GBP", "SEK", "DKK", "NOK", "PLN", "CZK", "HUF", "USD", "JPY", "CHF"} |->
        CASE c = "EUR" -> "IT" [] c = "GBP" -> "UK" [] c = "SEK" -> "SE"
          [] c = "DKK" -> "DK" [] c = "NOK" -> "NO" [] c = "PLN" -> "PL"
          [] c = "CZK" -> "CZ" [] c = "HUF" -> "HU" [] OTHER -> "ICC"]

Market(base) == IF base \in DOMAIN CurrencyToCountry THEN CurrencyToCountry[base] ELSE "ICC"

\* ICC spells the settlement currency EUR as EURO
Normalized(c) == IF c = "EUR" THEN "EURO" ELSE c

\* data.find(entry => entry.settlementCurrency === sc): its index from i on, 0 if none
RECURSIVE FindSettlement(_, _, _)
FindSettlement(data, sc, i) ==
    IF i > Len(data) THEN 0
    ELSE IF data[i].sc = sc THEN i ELSE FindSettlement(data, sc, i + 1)

\* consumer.find(c => c.submissionCurrencyCode === code): its index from i on, 0 if none
RECURSIVE FindSubmission(_, _, _)
FindSubmission(consumer, code, i) ==
    IF i > Len(consumer) THEN 0
    ELSE IF consumer[i].code = code THEN i ELSE FindSubmission(consumer, code, i + 1)

\* 1 + variance / 100
Multiplier(pv) == JsAdd(Int2Js(1), JsDiv(ParseFloat(pv), Int2Js(100)))

\* is the variance entry usable: quoteData && quoteData.percentageVariance
HasVariance(consumer, k) == k # 0 /\ Truthy(consumer[k].pv)

\* the ICC branch: the settlement-currency search and the two formulas
AmexIcc(data, base, quote, ecbRate) ==
    LET iBase == FindSettlement(data, Normalized(base), 1)
        iQuote == FindSettlement(data, Normalized(quote), 1)
        needsInversion == iBase = 0
        i == IF iBase # 0 THEN iBase ELSE iQuote
        rateData == data[i]
        k == FindSubmission(rateData.consumer, IF needsInversion THEN base ELSE quote, 1)
    IN IF i = 0 THEN Fetched(Null, "unsupported")
       ELSE IF rateData.hasConsumer /\ HasVariance(rateData.consumer, k)
            THEN Fetched(IF needsInversion
                            THEN JsDiv(ecbRate, Multiplier(rateData.consumer[k].pv))
                            ELSE JsMul(ecbRate, Multiplier(rateData.consumer[k].pv)),
                         "rate")
            ELSE Fetched(Null, "caught")

\* the branch of a country market: the first entry, quote in its list
AmexCountry(data, quote, ecbRate) ==
    LET rateData == data[1]
        k == FindSubmission(rateData.consumer, quote, 1)
    IN IF rateData.hasConsumer /\ HasVariance(rateData.consumer, k)
       THEN Fetched(JsMul(ecbRate, Multiplier(rateData.consumer[k].pv)), "rate")
       ELSE Fetched(Null, "caught")

\* getAmexRateViaPlaywright: mid is the outcome of its getMidMarketRate(date, base, quote)
GetAmexRateViaPlaywright(resp, mid, base, quote) ==
    IF mid.kind = "throw" \/ ~resp.ok \/ Len(resp.entries) = 0 THEN Fetched(Null, "caught")
    ELSE IF Market(base) = "ICC"
         THEN AmexIcc(resp.entries, base, quote, mid.value)
         ELSE AmexCountry(resp.entries, quote, mid.value)

\* the fetch function of provider p
ViaFetch(p, resp, w, date, base, quote, amount) ==
    CASE p = "mc"   -> GetMastercardRateViaAPI(resp, amount)
      [] p = "visa" -> GetVisaRateViaPlaywright(resp, amount)
      [] p = "amex" -> GetAmexRateViaPlaywright(resp, GetMidMarketRate(w, date, base, quote),
                                                base, quote)

-----------------------------------------------------------------------------
(* The per-provider cache (a Map: a set of entries with distinct keys) and *)
(* getMastercardRate / getVisaRate / getAmexRate                           *)

CACHE_TTL == 1000 * 60 * 60

\* getCacheKey: Amex's key leaves the amount out
GetCacheKey(p, date, base, quote, amount) ==
    IF p = "amex" THEN <<date, base, quote>> ELSE <<date, base, quote, amount>>

CacheHas(m, k) == \E e \in m : e.key = k
CacheGet(m, k) == CHOOSE e \in m : e.key = k
CacheDelete(m, k) == {e \in m : e.key # k}
CacheSet(m, k, v, t) == CacheDelete(m, k) \cup {[key |-> k, value |-> v, timestamp |-> t]}

IsFreshForAMinute(e, t) == t - e.timestamp < 1000 * 60

\* Date.now() - timestamp < CACHE_TTL
IsFresh(e, t) == t - e.timestamp < CACHE_TTL

\* the head of getRate: the value of a fresh entry; a stale entry is deleted
CacheLookup(m, k, t) ==
    IF CacheHas(m, k)
    THEN IF IsFresh(CacheGet(m, k), t)
         THEN [hit |-> TRUE, value |-> CacheGet(m, k).value, map |-> m]
         ELSE [hit |-> FALSE, value |-> Undefined, map |-> CacheDelete(m, k)]
    ELSE [hit |-> FALSE, value |-> Undefined, map |-> m]

\* a getRate that stores whatever its fetch hands it
IsStorableAlways(apiRate) == TRUE

\* is the fetched value stored and returned: apiRate !== null
IsStorable(apiRate) == apiRate # Null

\* what getRate does when the fetch handed it null: Amex returns null, the others throw
NullOutcome(p) == IF p = "amex" THEN "return" ELSE "throw"

NumSlots == 6
CallIds == 1 .. NumSlots

IdleCall ==
    [pc |-> "idle", p |-> "mc", date |-> <<2025, 1, 1>>, base |-> "EUR", quote |-> "EUR",
     amount |-> 1, seen |-> FALSE, seenValue |-> Undefined, seenAge |-> 0,
     fetched |-> FALSE, kind |-> "none", value |-> Undefined, why |-> "none",
     resp |-> FailedPayload]

\* a getRate invocation after its synchronous head, run at time t against the Map m;
\* hist is the history of cache.set of the provider (seen, seenValue, seenAge record the
\* last one made for the key before this lookup, and how long before)
StartedCall(p, date, base, quote, amount, m, hist, t) ==
    LET k == GetCacheKey(p, date, base, quote, amount)
        look == CacheLookup(m, k, t)
        known == CacheHas(hist, k)
    IN [pc |-> IF look.hit THEN "done" ELSE "fetching",
        p |-> p, date |-> date, base |-> base, quote |-> quote, amount |-> amount,
        seen |-> known,
        seenValue |-> IF known THEN CacheGet(hist, k).value ELSE Undefined,
        seenAge |-> IF known THEN t - CacheGet(hist, k).timestamp ELSE 0,
        fetched |-> ~look.hit,
        kind |-> IF look.hit THEN "return" ELSE "none",
        value |-> look.value,
        why |-> IF look.hit THEN "hit" ELSE "none",
        resp |-> FailedPayload]

\* the same invocation after its fetch function handed it api, computed from the
\* answer resp of the provider
FinishedCall(c, api, resp) ==
    [c EXCEPT !.pc = "done",
              !.resp = resp,
              !.kind = IF IsStorable(api.value) THEN "return" ELSE NullOutcome(c.p),
              !.value = IF IsStorable(api.value) THEN api.value
                        ELSE IF NullOutcome(c.p) = "return" THEN Null ELSE Undefined,
              !.why = api.why]

\* the Map after the tail of getRate: cache.set(cacheKey, {value, timestamp: Date.now()})
StoredMap(m, c, api, t) ==
    IF IsStorable(api.value)
    THEN CacheSet(m, GetCacheKey(c.p, c.date, c.base, c.quote, c.amount), api.value, t)
    ELSE m

KeyOf(c) == GetCacheKey(c.p, c.date, c.base, c.quote, c.amount)

\* the slots once the invocation in slot c has taken a step to cl: a settled invocation
\* stays on record until the next one settles, or for good when its promise is held by
\* the Promise.all of a request
Settle(c, cl) ==
    [b \in DOMAIN calls |->
        IF b = c THEN cl
        ELSE IF cl.pc = "done" /\ calls[b].pc = "done" /\ req.pc = "idle" THEN IdleCall
             ELSE calls[b]]

\* the synchronous head of getRate, run in slot c: the lookup, up to the await of the fetch
CallBegun(c, p, date, base, quote, amount) ==
    LET k == GetCacheKey(p, date, base, quote, amount)
    IN /\ calls' = Settle(c, StartedCall(p, date, base, quote, amount,
                                          cache[p], stored[p], now))
       /\ cache' = [cache EXCEPT ![p] = CacheLookup(cache[p], k, now).map]

\* the head of a getRate call of an independent caller: the lookup, up to the await of
\* the fetch; the call takes a slot that holds no pending call, the lower slots in use
RateBegin(c, p, date, base, quote, amount) ==
    /\ calls[c].pc \in {"idle", "done"}
    /\ \A b \in 1 .. c - 1 : calls[b].pc # "idle"
    /\ started < MaxStarted
    /\ started' = started + 1
    /\ CallBegun(c, p, date, base, quote, amount)
    /\ UNCHANGED <<web, now, ticks, stored, fx, midLog, ser, req>>

\* the fetch of the call in slot c settles, the provider having answered resp, and the
\* tail of getRate runs
RateFinish(c, resp) ==
    /\ calls[c].pc = "fetching"
    /\ LET cl == calls[c]
           api == ViaFetch(cl.p, resp, fx, cl.date, cl.base, cl.quote, cl.amount)
       IN /\ calls' = Settle(c, FinishedCall(cl, api, resp))
          /\ cache' = [cache EXCEPT ![cl.p] = StoredMap(cache[cl.p], cl, api, now)]
          /\ stored' = [stored EXCEPT ![cl.p] = StoredMap(stored[cl.p], cl, api, now)]
    /\ UNCHANGED <<web, now, ticks, fx, started, midLog, ser, req>>

\* the clock advances by delta milliseconds
Tick(delta) ==
    /\ ticks < MaxTicks
    /\ now' = now + delta
    /\ ticks' = ticks + 1
    /\ UNCHANGED <<web, cache, stored, calls, fx, started, midLog, ser, req>>

-----------------------------------------------------------------------------
(* Initial state shared by the specifications *)

IdleSeries ==
    [pc |-> "idle", p |-> "mc", start |-> <<2025, 1, 1>>, end |-> <<2025, 1, 1>>,
     base |-> "EUR", quote |-> "EUR", dates |-> <<>>, i |-> 0,
     lastGood |-> Null, series |-> <<>>, outcomes |-> <<>>]

NoBody ==
    [mid |-> Undefined, mc |-> Undefined, visa |-> Undefined, amex |-> Undefined,
     amexUnavailable |-> FALSE,
     convertedMid |-> Undefined, convertedMc |-> Undefined, convertedVisa |-> Undefined,
     convertedAmex |-> Undefined,
     mcDeltaPct |-> Undefined, visaDeltaPct |-> Undefined, amexDeltaPct |-> Undefined,
     midDeltaPct |-> Undefined, mcDayDeltaPct |-> Undefined, visaDayDeltaPct |-> Undefined,
     amexDayDeltaPct |-> Undefined]

\* the answer of the reference provider to a request for a range of days: per day of
\* `days` the rates object of `tables`
RangeAnswer(status, hasRates, days, tables) ==
    [status |-> status, hasRates |-> hasRates, days |-> days, tables |-> tables]

NoRange == RangeAnswer("err", FALSE, {}, [d \in {} |-> NoTable])

\* the body of an answer of /api/history before it is written
NoHistory ==
    [mid |-> <<>>, mc |-> <<>>, visa |-> <<>>, amex |-> <<>>,
     mcAvgDeltaPct |-> Undefined, visaAvgDeltaPct |-> Undefined,
     amexAvgDeltaPct |-> Undefined]

\* the body of an answer of /api/rate/:provider before it is written
NoSingle ==
    [rate |-> Undefined, converted |-> Undefined, dayDeltaPct |-> Undefined,
     unavailable |-> FALSE]

\* the one HTTP request: endpoint is "rates" (/api/rates), "rate" (/api/rate/:provider)
\* or "history" (/api/history)
IdleReq ==
    [pc |-> "idle", endpoint |-> "rates", provider |-> "mid",
     date |-> <<2025, 1, 1>>, base |-> "EUR", quote |-> "EUR", amount |-> 1,
     status |-> 0, body |-> NoBody, single |-> NoSingle,
     labels |-> <<>>, runs |-> [p \in Providers |-> IdleSeries],
     midPc |-> "idle", midAnswer |-> NoRange, midMap |-> {}, history |-> NoHistory]

\* the browser session of visa-scraper.js before its first use.  Browsers are numbered
\* in the order of their launch, 0 stands for null, and a page bears the number of the
\* browser it belongs to.  Per call slot: at = the await of getVisaRateViaPlaywright the
\* call is at, own = the browser its ensureBrowser launched, page = the page
\* ensureBrowser returned to it, shared = sharedBrowser when it returned, pending = its
\* fetch is in flight, got = the request (cache key) answered by the response its
\* waitForResponse resolved with, <<>> while it has not resolved
NoSession ==
    [sharedBrowser |-> 0, sharedPage |-> 0, launched |-> 0, open |-> {}, closing |-> 0,
     at |-> [c \in CallIds |-> "none"], own |-> [c \in CallIds |-> 0],
     page |-> [c \in CallIds |-> 0], shared |-> [c \in CallIds |-> 0],
     pending |-> [c \in CallIds |-> FALSE], got |-> [c \in CallIds |-> <<>>]]

\* a process that has just started: empty caches, nothing running (the slots of the
\* getRate invocations are laid out by each specification)
Quiet ==
    /\ web = NoSession
    /\ now = 0
    /\ ticks = 0
    /\ cache = [p \in Providers |-> {}]
    /\ stored = [p \in Providers |-> {}]
    /\ started = 0
    /\ midLog = {}
    /\ ser = IdleSeries
    /\ req = IdleReq

\* rate tables of the reference provider: EUR->USD and EUR->JPY
Table1 == RateTable(Int2Js(2), Int2Js(300))
Table2 == RateTable(JsNum(5, 4), Int2Js(200))
TablePartial == RateTable(Int2Js(2), Undefined)

Friday == <<2025, 1, 31>>
Saturday == <<2025, 2, 1>>

-----------------------------------------------------------------------------
(* Specification SpecMid: getMidMarketRate against a fixed reference       *)
(* provider; every finished invocation is recorded in midLog.              *)

MidDates == {Friday, Saturday}
MidDatedAnswers == {FxOk(Table1), FxOk(TablePartial), FxNoRates, FxNotFound, FxFailed}
MidLatestAnswers == {FxOk(Table2), FxNoRates, FxNotFound, FxFailed}

InitMid ==
    /\ Quiet
    /\ calls = [c \in 1 .. MaxCalls |-> IdleCall]
    /\ fx \in [dated : [MidDates -> MidDatedAnswers], latest : MidLatestAnswers]

\* one invocation of getMidMarketRate(date, base, quote), from call to settlement
MidCall(date, base, quote) ==
    /\ Cardinality(midLog) < MaxLog
    /\ LET e == [date |-> date, base |-> base, quote |-> quote,
                 out |-> GetMidMarketRate(fx, date, base, quote)]
       IN /\ e \notin midLog
          /\ midLog' = midLog \cup {e}
    /\ UNCHANGED <<web, now, ticks, cache, stored, calls, fx, started, ser, req>>

NextMid == \E date \in MidDates, base \in Currencies, quote \in Currencies :
              MidCall(date, base, quote)

SpecMid == InitMid /\ [][NextMid]_vars

\* the answer of the reference provider to the dated request of a recorded invocation
DatedAnswer(e) == fx.dated[e.date]

\* C7: getMidMarketRate(date, C, C) returns exactly 1.0 and makes no transport call,
\* for every currency C, every date and whatever the provider would answer.
C7_SameCurrencyIsOne ==
    \A e \in midLog :
        e.base = e.quote =>
            /\ e.out.kind = "return"
            /\ e.out.value = Int2Js(1)
            /\ e.out.calls = 0

C7_Witness ==
    \E e \in midLog :
        /\ e.base = e.quote
        /\ e.base # "EUR"
        /\ DatedAnswer(e).status = "err"
        /\ e.out.value = Int2Js(1)

\* C6: with base # quote, a dated request answered 404 is followed by exactly one
\* request to /latest, and the rate returned is the one the rule of the pair gives on
\* that answer (the call fails when /latest gives no rates); a dated request that
\* fails in any other way is not retried and the call fails; no invocation makes more
\* than two transport calls.
C6_FallbackOnlyOn404 ==
    \A e \in midLog :
        e.base # e.quote =>
            /\ e.out.calls <= 2
            /\ DatedAnswer(e).status = "404" =>
                  /\ e.out.calls = 2
                  /\ IF fx.latest.status = "ok" /\ fx.latest.hasRates
                     THEN /\ e.out.kind = "return"
                          /\ e.out.value =
                                GetMidMarketRate([dated |-> [d \in MidDates |-> fx.latest],
                                                  latest |-> fx.latest],
                                                 e.date, e.base, e.quote).value
                     ELSE e.out.kind = "throw"
            /\ (DatedAnswer(e).status = "err" \/ (DatedAnswer(e).status = "ok"
                                                   /\ ~DatedAnswer(e).hasRates)) =>
                  /\ e.out.calls = 1
                  /\ e.out.kind = "throw"

C6_Witness ==
    /\ \E e \in midLog :
          /\ e.base # "EUR" /\ e.quote = "EUR"
          /\ DatedAnswer(e).status = "404"
          /\ e.out.kind = "return"
          /\ e.out.calls = 2
          /\ e.out.value = JsNum(4, 5)
    /\ \E e \in midLog :
          /\ e.base # e.quote
          /\ DatedAnswer(e).status = "err"
          /\ e.out.kind = "throw"
          /\ e.out.calls = 1

\* C8: for A, B both different from EUR and one date, whenever getMidMarketRate(d, EUR, A)
\* and getMidMarketRate(d, EUR, B) return finite numbers, getMidMarketRate(d, A, B)
\* returns their quotient (EUR->B) / (EUR->A).
C8_Triangulation ==
    \A e \in midLog, ea \in midLog, eb \in midLog :
        ( /\ e.base # "EUR" /\ e.quote # "EUR"
          /\ ea.date = e.date /\ ea.base = "EUR" /\ ea.quote = e.base
          /\ eb.date = e.date /\ eb.base = "EUR" /\ eb.quote = e.quote
          /\ ea.out.kind = "return" /\ IsFinite(ea.out.value)
          /\ eb.out.kind = "return" /\ IsFinite(eb.out.value) )
        => /\ e.out.kind = "return"
           /\ e.out.value = JsDiv(eb.out.value, ea.out.value)

C8_Witness ==
    \E e \in midLog, ea \in midLog, eb \in midLog :
        /\ e.base = "USD" /\ e.quote = "JPY"
        /\ ea.date = e.date /\ ea.base = "EUR" /\ ea.quote = "USD"
        /\ eb.date = e.date /\ eb.base = "EUR" /\ eb.quote = "JPY"
        /\ ea.out.value = Int2Js(2)
        /\ eb.out.value = Int2Js(300)
        /\ e.out.value = Int2Js(150)

\* C9: for A different from EUR and one date, whenever getMidMarketRate(d, EUR, A)
\* returns a finite number, getMidMarketRate(d, A, EUR) returns its inverse, on the
\* dated path and on the /latest fallback path alike.
C9_Inversion ==
    \A e \in midLog, ea \in midLog :
        ( /\ e.base # "EUR" /\ e.quote = "EUR"
          /\ ea.date = e.date /\ ea.base = "EUR" /\ ea.quote = e.base
          /\ ea.out.kind = "return" /\ IsFinite(ea.out.value) )
        => /\ e.out.kind = "return"
           /\ e.out.value = JsDiv(Int2Js(1), ea.out.value)

C9_Witness ==
    \E e \in midLog, ea \in midLog :
        /\ e.base = "USD" /\ e.quote = "EUR"
        /\ ea.date = e.date /\ ea.base = "EUR" /\ ea.quote = "USD"
        /\ DatedAnswer(e).status = "404"
        /\ e.out.calls = 2 /\ ea.out.calls = 2
        /\ ea.out.value = JsNum(5, 4)
        /\ e.out.value = JsNum(4, 5)

\* C19: getMidMarketRate returns a finite number or throws; when the rates object of the
\* answer lacks the base or the quote currency it throws and returns no undefined, NaN
\* or Infinity.
\* Does not hold: a missing currency is read as undefined and returned, or carried into
\* the division, which gives NaN.
C19_FiniteOrError ==
    \A e \in midLog : e.out.kind = "return" => IsFinite(e.out.value)

-----------------------------------------------------------------------------
(* Specification SpecCache: independent callers of getMastercardRate,      *)
(* getVisaRate and getAmexRate, interleaved at their awaits, while the     *)
(* clock advances and the providers' answers change.                       *)

Minute == 60 * 1000
TickSteps == {Minute, 59 * Minute}

\* "2.5", "3", "4": field values of the payloads
Chars25 == <<"2", ".", "5">>
Chars3 == <<"3">>
Chars4 == <<"4">>

\* Amex's ICC answer with one USD settlement entry holding JPY's variance pv
UsdEntryPayload(pv) == AmexPayload(<<AmexEntry("USD", <<Variance("JPY", pv)>>)>>)

CachePayloads(p) ==
    CASE p = "mc"   -> {McPayload(Str(Chars3), Undefined), McPayload(Undefined, Str(Chars4)),
                        FailedPayload}
      [] p = "visa" -> {VisaPayload(Str(Chars3)), FailedPayload}
      [] p = "amex" -> {UsdEntryPayload(Str(Chars25)),
                        AmexPayload(<<AmexEntry("EURO", <<Variance("JPY", Str(Chars25))>>)>>)}

\* the queries of the independent callers: [p, amount]
CacheQueries ==
    {[p |-> "mc", amount |-> 1], [p |-> "visa", amount |-> 2], [p |-> "amex", amount |-> 1]}

\* the reference provider answers every date with the same table
SteadyFx(dates, table) == [dated |-> [d \in dates |-> FxOk(table)], latest |-> FxOk(table)]

InitCache ==
    /\ Quiet
    /\ calls = [c \in 1 .. MaxCalls |-> IdleCall]
    /\ fx = SteadyFx({Friday}, Table1)

NextCache ==
    \/ \E c \in 1 .. MaxCalls, q \in CacheQueries :
          RateBegin(c, q.p, Friday, "USD", "JPY", q.amount)
    \/ \E c \in 1 .. MaxCalls : \E resp \in CachePayloads(calls[c].p) : RateFinish(c, resp)
    \/ \E delta \in TickSteps : Tick(delta)

SpecCache == InitCache /\ [][NextCache]_vars

\* C3: once cache.set has stored a value for a key at time T, a getRate for that key
\* less than one hour after T returns that value and invokes no fetch, and a getRate
\* for it more than one hour after T invokes the fetch again (T being the time of the
\* last cache.set made for the key before the lookup).
C3_CacheTtl ==
    \A c \in DOMAIN calls :
        (calls[c].pc # "idle" /\ calls[c].seen) =>
            /\ calls[c].seenAge < CACHE_TTL =>
                  /\ ~calls[c].fetched
                  /\ calls[c].pc = "done"
                  /\ calls[c].kind = "return"
                  /\ calls[c].value = calls[c].seenValue
            /\ calls[c].seenAge > CACHE_TTL => calls[c].fetched

C3_Witness ==
    \E c \in DOMAIN calls, b \in DOMAIN calls :
        /\ calls[c].pc = "done" /\ calls[c].seen
        /\ calls[c].seenAge = 59 * Minute
        /\ ~calls[c].fetched
        /\ calls[c].value = Int2Js(3)
        /\ calls[b].pc = "fetching" /\ calls[b].seen
        /\ calls[b].p = calls[c].p
        /\ calls[b].seenAge = 2 * 59 * Minute
        /\ calls[b].fetched

\* C22: between the lookup of a getRate call that found no fresh entry for its key and
\* that call's own cache.set, no other call sets the key: when the call comes to store
\* its value the Map holds no entry for the key, so that no key is fetched by two calls
\* at once and no entry is overwritten by a fetch that started before it was stored.
\* Does not hold: a second call for the key that starts while the first awaits its
\* fetch misses too and fetches; whichever settles last overwrites the other's entry.
C22_NoInterleavedMutation ==
    [][\A c \in DOMAIN calls :
          ( /\ calls[c].pc = "fetching" /\ calls'[c].pc = "done"
            /\ calls'[c].kind = "return" /\ IsStorable(calls'[c].value) )
          => ~CacheHas(cache[calls[c].p], KeyOf(calls[c]))]_vars

\* C24: a getRate for a key whose last cache.set was made at most one hour before the
\* lookup, one hour exactly included, returns the stored value and invokes no fetch.
\* Does not hold: the test is Date.now() - timestamp < CACHE_TTL, so that a lookup
\* exactly one hour after the cache.set deletes the entry and fetches.
C24_EvictionBoundary ==
    \A c \in DOMAIN calls :
        (calls[c].pc # "idle" /\ calls[c].seen /\ calls[c].seenAge <= CACHE_TTL) =>
            /\ ~calls[c].fetched
            /\ calls[c].kind = "return"
            /\ calls[c].value = calls[c].seenValue

\* the getRate invocation of slot c takes a step
Acts(c) == calls'[c] # calls[c] /\ calls'[c].pc # "idle"

\* the fetch of the invocation of slot c settles
Settles(c) == calls[c].pc = "fetching" /\ calls'[c].pc = "done"

\* C25: an entry comes into the Map of a provider only when a fetch of that provider
\* for the entry's key settles with a rate, and holds that rate; a fetch that settles
\* with null (a failure, or Amex's Unsupported) leaves every Map as it was, and a
\* lookup of a key that no cache.set was made for invokes the fetch; a value returned
\* from the cache is the value of the entry of the provider's own Map, and a step of a
\* getRate call changes no Map but its provider's.
C25_OnlySuccessfulFetches ==
    [][/\ \A p \in Providers : \A e \in cache'[p] \ cache[p] :
             \E c \in DOMAIN calls :
                /\ Settles(c)
                /\ calls[c].p = p /\ KeyOf(calls[c]) = e.key
                /\ calls'[c].why = "rate" /\ calls'[c].resp.ok
                /\ e.value = calls'[c].value
                /\ e.value = ViaFetch(p, calls'[c].resp, fx, calls[c].date, calls[c].base,
                                      calls[c].quote, calls[c].amount).value
       /\ \A c \in DOMAIN calls :
             /\ (Settles(c) /\ calls'[c].why \in {"caught", "unsupported"}) => cache' = cache
             /\ (Acts(c) /\ ~calls'[c].seen) => calls'[c].fetched
             /\ (Acts(c) /\ calls'[c].why = "hit") =>
                    /\ CacheHas(cache[calls'[c].p], KeyOf(calls'[c]))
                    /\ calls'[c].value = CacheGet(cache[calls'[c].p], KeyOf(calls'[c])).value
             /\ Acts(c) => \A q \in Providers \ {calls'[c].p} : cache'[q] = cache[q]]_vars

\* a fetch of Mastercard has failed and stored nothing, the call made for the same key
\* after it fetches again, and the entry of another provider is still in its Map
C25_Witness ==
    \E c \in DOMAIN calls, b \in DOMAIN calls :
        /\ calls[c].pc = "done" /\ calls[c].why = "caught" /\ calls[c].p = "mc"
        /\ calls[b].pc = "fetching" /\ calls[b].p = "mc" /\ KeyOf(calls[b]) = KeyOf(calls[c])
        /\ ~calls[b].seen
        /\ cache["mc"] = {}
        /\ cache["visa"] # {}

-----------------------------------------------------------------------------
(* Specification SpecAmex: getAmexRate over the answers Amex may give and  *)
(* the outcomes of its getMidMarketRate call.                              *)

CharsMinus1 == <<"-", "1", ".", "0">>
CharsAbc == <<"a", "b", "c">>
Chars0 == <<"0">>

CharsMinus100 == <<"-", "1", "0", "0">>
CharsMinus200 == <<"-", "2", "0", "0">>

\* values of percentageVariance: "2.5", "-1.0", "0", "abc", "", the number 0, absent,
\* "-100", "-200"
AmexVariances ==
    {Str(Chars25), Str(CharsMinus1), Str(Chars0), Str(CharsAbc), Str(<<>>), Int2Js(0),
     Undefined, Str(CharsMinus100), Str(CharsMinus200)}

AmexPayloads ==
    {AmexPayload(<<AmexEntry(sc, <<Variance(code, pv)>>)>>) :
        sc \in {"USD", "EURO"}, code \in {"JPY", "USD"}, pv \in AmexVariances}
    \cup {AmexPayload(<<AmexEntry("EURO", <<Variance("JPY", Str(Chars25))>>),
                        AmexEntry("USD", <<Variance("JPY", pv)>>)>>) : pv \in AmexVariances}
    \cup {AmexPayload(<<AmexEntry("EURO", <<Variance("USD", Str(Chars25))>>),
                        AmexEntry("USD", <<Variance("JPY", Str(Chars25))>>)>>)}
    \cup {AmexPayload(<<AmexEntryBare("USD")>>), AmexPayload(<<AmexEntry("USD", <<>>)>>),
          AmexPayload(<<>>), FailedPayload}

\* [base, quote]: direct and inverted in the ICC group, a pair whose two currencies may
\* both own an entry, and a country market (EUR -> IT)
AmexPairs ==
    {<<"USD", "JPY">>, <<"JPY", "USD">>, <<"JPY", "EUR">>, <<"USD", "EUR">>, <<"EUR", "USD">>}

AmexFx ==
    {[dated |-> [d \in {Friday} |-> a], latest |-> FxOk(Table2)] :
        a \in {FxOk(Table1), FxOk(TablePartial), FxNotFound, FxFailed}}

InitAmex ==
    /\ Quiet
    /\ calls = [c \in {1} |-> IdleCall]
    /\ fx \in AmexFx

NextAmex ==
    \/ \E pair \in AmexPairs : RateBegin(1, "amex", Friday, pair[1], pair[2], 1)
    \/ \E resp \in AmexPayloads : RateFinish(1, resp)

SpecAmex == InitAmex /\ [][NextAmex]_vars

\* the outcome of the getMidMarketRate call made by the fetch of invocation cl
MidOf(cl) == GetMidMarketRate(fx, cl.date, cl.base, cl.quote)

\* a getAmexRate invocation that has settled after a fetch in the ICC group
SettledIcc(cl) ==
    /\ cl.pc = "done" /\ cl.p = "amex" /\ cl.fetched
    /\ Market(cl.base) = "ICC"

\* the entries of the answer whose settlement currency is cur (EUR spelt EURO)
SettlementEntries(data, cur) == {i \in 1 .. Len(data) : data[i].sc = Normalized(cur)}

\* the variance values listed for currency code by entry i of the answer
ListedVariances(data, i, code) ==
    IF data[i].hasConsumer
    THEN {data[i].consumer[k].pv : k \in {k \in 1 .. Len(data[i].consumer) :
                                             data[i].consumer[k].code = code}}
    ELSE {}

\* a percentageVariance that is a number, or a string that writes one
IsNumeric(pv) == pv.t = "num" \/ (pv.t = "str" /\ ParseFloatStr(pv.s).t = "num")

\* the variance values the decision tree locates: quote's in the entry of base, else
\* base's in the entry of quote
Located(data, base, quote) ==
    IF SettlementEntries(data, base) # {}
    THEN UNION {ListedVariances(data, i, quote) : i \in SettlementEntries(data, base)}
    ELSE UNION {ListedVariances(data, i, base) : i \in SettlementEntries(data, quote)}

\* C4: in the ICC group, when the answer has no entry whose settlement
\* currency is base or quote, or the variance located is missing or not numeric,
\* getAmexRate returns the null that stands for Unsupported: it does not throw, and
\* returns and caches no number and no NaN.
\* Does not hold: a non-empty string that writes no number passes the truthiness test
\* and NaN is returned and cached.
C4_UnsupportedIsNull ==
    \A c \in DOMAIN calls :
        LET cl == calls[c]
            data == cl.resp.entries
        IN ( /\ SettledIcc(cl)
             /\ cl.resp.ok /\ MidOf(cl).kind = "return"
             /\ \/ SettlementEntries(data, cl.base) \cup SettlementEntries(data, cl.quote) = {}
                \/ \A pv \in Located(data, cl.base, cl.quote) : ~IsNumeric(pv) )
           => /\ cl.kind = "return"
              /\ cl.value = Null
              /\ ~CacheHas(cache["amex"], KeyOf(cl))

\* C5: when the request to Amex fails, its getMidMarketRate call throws or
\* the answer is no usable array, getAmexRate throws; it does not return what it
\* returns for an unsupported pair.
\* Does not hold: the catch block of getAmexRateViaPlaywright turns every failure into
\* null.
C5_FailureIsAnError ==
    \A c \in DOMAIN calls :
        LET cl == calls[c]
        IN ( /\ cl.pc = "done" /\ cl.p = "amex" /\ cl.fetched
             /\ (~cl.resp.ok \/ MidOf(cl).kind = "throw" \/ Len(cl.resp.entries) = 0) )
           => /\ cl.kind = "throw"
              /\ ~(cl.kind = "return" /\ cl.value = Null)

\* C10: in the ICC group, when an entry of the answer has base as its
\* settlement currency and lists a numeric variance v for quote, getAmexRate returns
\* referenceRate * (1 + v / 100), for every numeric v, 0 included.
\* Does not hold: the number 0 fails the truthiness test and null is returned.
C10_DirectCase ==
    \A c \in DOMAIN calls :
        LET cl == calls[c]
            data == cl.resp.entries
        IN ( /\ SettledIcc(cl)
             /\ cl.resp.ok
             /\ MidOf(cl).kind = "return" /\ IsFinite(MidOf(cl).value) )
           => \A i \in SettlementEntries(data, cl.base) :
                 \A pv \in ListedVariances(data, i, cl.quote) :
                     IsNumeric(pv) =>
                        /\ cl.kind = "return"
                        /\ cl.value = JsMul(MidOf(cl).value,
                                            JsAdd(Int2Js(1), JsDiv(ParseFloat(pv), Int2Js(100))))

\* referenceRate / (1 + v / 100) for the variance value pv
InvertedRate(referenceRate, pv) ==
    JsDiv(referenceRate, JsAdd(Int2Js(1), JsDiv(ParseFloat(pv), Int2Js(100))))

\* C11: in the ICC group, when no entry of the answer has base as its settlement
\* currency, one has quote, and it lists a numeric variance v for base, getAmexRate
\* returns referenceRate / (1 + v / 100); and when an entry has base as its settlement
\* currency no rate is computed by the inverted rule from the entry of quote.
\* Does not hold: the number 0 fails the truthiness test and null is returned.
C11_InvertedCase ==
    \A c \in DOMAIN calls :
        LET cl == calls[c]
            data == cl.resp.entries
        IN ( /\ SettledIcc(cl)
             /\ cl.resp.ok
             /\ MidOf(cl).kind = "return" /\ IsFinite(MidOf(cl).value) )
           => /\ SettlementEntries(data, cl.base) = {} =>
                    \A i \in SettlementEntries(data, cl.quote) :
                       \A pv \in ListedVariances(data, i, cl.base) :
                           IsNumeric(pv) =>
                              /\ cl.kind = "return"
                              /\ cl.value = InvertedRate(MidOf(cl).value, pv)
              /\ SettlementEntries(data, cl.base) # {} =>
                    \A i \in SettlementEntries(data, cl.quote) :
                       \A pv \in ListedVariances(data, i, cl.base) :
                           \/ cl.value # InvertedRate(MidOf(cl).value, pv)
                           \/ \E j \in SettlementEntries(data, cl.base) :
                                 \E qv \in ListedVariances(data, j, cl.quote) :
                                    cl.value = JsMul(MidOf(cl).value, Multiplier(qv))

\* C27: for a base that maps to a country market, when the first entry of the answer
\* lists a numeric variance v for quote, getAmexRate returns
\* referenceRate * (1 + v / 100), whatever the settlement currency of that entry and
\* for every numeric v, 0 included.
\* Does not hold: the number 0 fails the truthiness test and null is returned.
C27_CountryMarket ==
    \A c \in DOMAIN calls :
        LET cl == calls[c]
            data == cl.resp.entries
        IN ( /\ cl.pc = "done" /\ cl.p = "amex" /\ cl.fetched
             /\ Market(cl.base) # "ICC"
             /\ cl.resp.ok /\ Len(data) > 0
             /\ MidOf(cl).kind = "return" /\ IsFinite(MidOf(cl).value) )
           => \A pv \in ListedVariances(data, 1, cl.quote) :
                 IsNumeric(pv) =>
                    /\ cl.kind = "return"
                    /\ cl.value = JsMul(MidOf(cl).value,
                                        JsAdd(Int2Js(1), JsDiv(ParseFloat(pv), Int2Js(100))))

\* a finite number that is not negative
IsNormalizedRate(v) == v.t = "num" /\ v.n >= 0

\* C21: every value held in the cache of Amex, and every value other than the null of
\* Unsupported that getAmexRate returns, is a finite number that is not negative,
\* whatever the answer of Amex and the outcome of getMidMarketRate.
\* Does not hold: a variance string that writes no number gives NaN, a variance of -100
\* under the inverted rule gives Infinity, a variance below -100 gives a negative
\* number, and a reference rate that is NaN or undefined gives NaN; each is returned
\* and cached.
C21_NormalizedRate ==
    /\ \A e \in cache["amex"] : IsNormalizedRate(e.value)
    /\ \A c \in DOMAIN calls :
          (calls[c].pc = "done" /\ calls[c].kind = "return" /\ calls[c].value # Null)
             => IsNormalizedRate(calls[c].value)

-----------------------------------------------------------------------------
(* Specification SpecSeries: getMastercardSeries, getVisaSeries and        *)
(* getAmexSeries, one run over a range of days, each day's getRate call    *)
(* settling with what the provider answers.                                *)

\* the while loop that fills `dates`: from cursor (a Date) while cursor <= end
RECURSIVE DatesFrom(_, _)
DatesFrom(cursor, end) ==
    IF cursor <= end THEN <<FmtDate(cursor)>> \o DatesFrom(cursor + 1, end) ELSE <<>>

\* typeof r === 'number' && !Number.isNaN(r), r the awaited result of getRate
IsGood(outcome) == outcome.kind = "return" /\ IsNumberNotNaN(outcome.value)

\* a loop body that keeps no value across a day without a number
LastGoodForgotten(lastGood, outcome) == IF IsGood(outcome) THEN outcome.value ELSE Null

\* lastGood after the loop body has seen outcome
LastGoodAfter(lastGood, outcome) == IF IsGood(outcome) THEN outcome.value ELSE lastGood

\* getSeries up to the await of the first getRate call; with no day in the range it
\* returns the empty series at once
SeriesStart(p, startDate, endDate, base, quote) ==
    /\ ser.pc = "idle"
    /\ ToDate(endDate) - ToDate(startDate) < MaxSpan
    /\ LET dates == DatesFrom(ToDate(startDate), ToDate(endDate))
           run == [IdleSeries EXCEPT !.p = p, !.start = startDate, !.end = endDate,
                                     !.base = base, !.quote = quote, !.dates = dates]
       IN IF dates = <<>>
          THEN /\ ser' = [run EXCEPT !.pc = "done"]
               /\ UNCHANGED <<web, calls, cache>>
          ELSE /\ ser' = [run EXCEPT !.pc = "await", !.i = 1]
               /\ CallBegun(1, p, dates[1], base, quote, 1)
    /\ UNCHANGED <<web, now, ticks, stored, fx, started, midLog, req>>

\* the loop body after the awaited getRate call has settled: the push, then the next
\* day's call or the return of the series
SeriesStep ==
    /\ ser.pc = "await"
    /\ calls[1].pc = "done"
    /\ LET outcome == [date |-> calls[1].date, kind |-> calls[1].kind,
                       value |-> calls[1].value]
           lastGood == LastGoodAfter(ser.lastGood, outcome)
           pushed == [ser EXCEPT !.lastGood = lastGood,
                                 !.series = Append(ser.series, lastGood),
                                 !.outcomes = Append(ser.outcomes, outcome)]
       IN IF ser.i = Len(ser.dates)
          THEN /\ ser' = [pushed EXCEPT !.pc = "done"]
               /\ UNCHANGED <<web, calls, cache>>
          ELSE /\ ser' = [pushed EXCEPT !.i = ser.i + 1]
               /\ CallBegun(1, ser.p, ser.dates[ser.i + 1], ser.base, ser.quote, 1)
    /\ UNCHANGED <<web, now, ticks, stored, fx, started, midLog, req>>

SeriesStarts == {<<2025, 1, 29>>, <<2025, 1, 30>>}
SeriesEnds == {FmtDate(n) : n \in 28 .. 29 + MaxSpan}

\* what a provider answers for one day: rates 3 and 4 or a failure; for Amex a variance
\* of 2.5, of -1.0, the string abc, or a failure
SeriesPayloads(p) ==
    CASE p = "mc"   -> {McPayload(Str(Chars3), Undefined), McPayload(Undefined, Str(Chars4)),
                        FailedPayload}
      [] p = "visa" -> {VisaPayload(Str(Chars3)), VisaPayload(Str(Chars4)), FailedPayload}
      [] p = "amex" -> {UsdEntryPayload(Str(Chars25)), UsdEntryPayload(Str(CharsMinus1)),
                        UsdEntryPayload(Str(CharsAbc)), FailedPayload}

InitSeries ==
    /\ Quiet
    /\ calls = [c \in {1} |-> IdleCall]
    /\ fx = SteadyFx(SeriesStarts \cup SeriesEnds, Table1)

NextSeries ==
    \/ \E p \in Providers, startDate \in SeriesStarts, endDate \in SeriesEnds :
          SeriesStart(p, startDate, endDate, "USD", "JPY")
    \/ \E resp \in SeriesPayloads(ser.p) : RateFinish(1, resp)
    \/ SeriesStep

SpecSeries == InitSeries /\ [][NextSeries]_vars

\* the calendar day after day s
NextDay(s) == IF s[3] < MonthLen[s[2]] THEN <<s[1], s[2], s[3] + 1>> ELSE <<s[1], s[2] + 1, 1>>

\* is day s on or before day t
OnOrBefore(s, t) == s[2] < t[2] \/ (s[2] = t[2] /\ s[3] <= t[3])

\* the positions up to i whose fetch gave a number that is not NaN
GoodUpTo(i) == {j \in 1 .. i : IsGood(ser.outcomes[j])}

Latest(S) == CHOOSE j \in S : \A k \in S : k <= j

\* C2: a card-network series holds one entry per calendar day of [startDate, endDate]
\* in ascending order; entry i is the value of the latest fetch at a position <= i that
\* gave a number, or null when there is none; so no null follows a non-null entry.
C2_CarryForward ==
    /\ \A i \in 1 .. Len(ser.series) :
          /\ ser.outcomes[i].date = ser.dates[i]
          /\ ser.dates[i] = IF i = 1 THEN ser.start ELSE NextDay(ser.dates[i - 1])
          /\ ser.series[i] = IF GoodUpTo(i) = {} THEN Null
                             ELSE ser.outcomes[Latest(GoodUpTo(i))].value
          /\ (i > 1 /\ ser.series[i - 1] # Null) => ser.series[i] # Null
    /\ ser.pc = "done" =>
          /\ Len(ser.series) = Len(ser.dates)
          /\ IF OnOrBefore(ser.start, ser.end)
             THEN ser.dates # <<>> /\ ser.dates[Len(ser.dates)] = ser.end
             ELSE ser.series = <<>>

\* a finished five-day series over the turn of the month with numbers on the first (3)
\* and on the fourth day (4) only
C2_Witness ==
    /\ ser.pc = "done"
    /\ ser.p = "mc"
    /\ ser.start = <<2025, 1, 30>> /\ ser.end = <<2025, 2, 3>>
    /\ [i \in 1 .. 5 |-> ser.outcomes[i].kind] = <<"return", "throw", "throw", "return", "throw">>
    /\ ser.series = <<Int2Js(3), Int2Js(3), Int2Js(3), Int2Js(4), Int2Js(4)>>

-----------------------------------------------------------------------------
(* Specification SpecRates: one GET /api/rates or /api/rate/:provider      *)
(* request.  The /api/rates handler starts the three card calls for the    *)
(* date and for the day before (slots 1..3 and 4..6) together with the two *)
(* getMidMarketRate calls, and answers when its Promise.all settles; the   *)
(* /api/rate/:provider handler awaits its two calls one after the other.   *)
(* Dates and currency codes are well formed.                               *)

Chars2 == <<"2">>
CharsMinus2 == <<"-", "2">>

\* Math.max(0, parseFloat(req.query.amount || '1') || 1), for a whole-number result
ParseAmount(q) ==
    LET given == ParseFloat(IF Truthy(q) THEN q ELSE Str(<<"1">>))
        parsed == IF Truthy(given) THEN given ELSE Int2Js(1)
    IN IF parsed.t = "num" /\ parsed.n > 0 THEN parsed.n \div parsed.d ELSE 0

\* a delta taken relative to its first operand
DeltaPctOfFirst(a, b) == JsMul(JsDiv(JsSub(a, b), a), Int2Js(100))

\* ((a - b) / b) * 100
DeltaPct(a, b) == JsMul(JsDiv(JsSub(a, b), b), Int2Js(100))

\* a handler that never takes a rate for the mark of an unsupported pair
IsUnavailableNever(rate) == FALSE

\* amex === null, rate === null: the mark of an unsupported pair
IsUnavailable(rate) == rate = Null

\* what JSON.stringify makes of a number: NaN and the infinities become null
Json(v) == IF v.t \in {"nan", "inf"} THEN Null ELSE v

\* the body of the 200 answer, as the client reads it
RatesBody(mid, mc, visa, amex, midYesterday, mcYesterday, visaYesterday, amexYesterday, amount) ==
    LET amexUnavailable == IsUnavailable(amex)
        body ==
          [mid |-> mid, mc |-> mc, visa |-> visa,
           amex |-> IF amexUnavailable THEN Null ELSE amex,
           convertedMid |-> JsMul(mid, Int2Js(amount)),
           convertedMc |-> JsMul(mc, Int2Js(amount)),
           convertedVisa |-> JsMul(visa, Int2Js(amount)),
           convertedAmex |-> IF amexUnavailable THEN Null ELSE JsMul(amex, Int2Js(amount)),
           mcDeltaPct |-> DeltaPct(mc, mid),
           visaDeltaPct |-> DeltaPct(visa, mid),
           amexDeltaPct |-> IF amexUnavailable THEN Null ELSE DeltaPct(amex, mid),
           midDeltaPct |-> IF Truthy(midYesterday) THEN DeltaPct(mid, midYesterday) ELSE Null,
           mcDayDeltaPct |-> IF Truthy(mcYesterday) THEN DeltaPct(mc, mcYesterday) ELSE Null,
           visaDayDeltaPct |-> IF Truthy(visaYesterday) THEN DeltaPct(visa, visaYesterday)
                               ELSE Null,
           amexDayDeltaPct |-> IF amexUnavailable \/ ~Truthy(amexYesterday) THEN Null
                               ELSE DeltaPct(amex, amexYesterday)]
    IN [f \in DOMAIN NoBody |->
           IF f = "amexUnavailable" THEN amexUnavailable ELSE Json(body[f])]

\* the order of the card calls in the Promise.all array
RatesProvider(c) == CASE c \in {1, 4} -> "mc" [] c \in {2, 5} -> "visa" [] OTHER -> "amex"

\* the getMidMarketRate call of the handler for the date, and for the day before
MidToday == GetMidMarketRate(fx, req.date, req.base, req.quote)
MidYesterday == GetMidMarketRate(fx, YesterdayStr(req.date), req.base, req.quote)

\* a promise with .catch(() => null)
CatchNull(outcome) == IF outcome.kind = "throw" THEN Null ELSE outcome.value

\* the handler up to `await Promise.all`: the 400 answer when a parameter is missing,
\* else the synchronous heads of the six getRate calls
RatesStart(complete, date, base, quote, q) ==
    /\ req.pc = "idle"
    /\ IF ~complete
       THEN /\ req' = [req EXCEPT !.pc = "done", !.status = 400]
            /\ UNCHANGED <<web, calls, cache>>
       ELSE LET amount == ParseAmount(q)
                day(c) == IF c <= 3 THEN date ELSE YesterdayStr(date)
                key(p, d) == GetCacheKey(p, d, base, quote, amount)
            IN /\ req' = [req EXCEPT !.pc = "waiting", !.date = date, !.base = base,
                                     !.quote = quote, !.amount = amount]
               /\ calls' = [c \in CallIds |->
                              StartedCall(RatesProvider(c), day(c), base, quote, amount,
                                          cache[RatesProvider(c)], stored[RatesProvider(c)],
                                          now)]
               /\ cache' = [p \in Providers |->
                              CacheLookup(CacheLookup(cache[p], key(p, date), now).map,
                                          key(p, YesterdayStr(date)), now).map]
    /\ UNCHANGED <<web, now, ticks, stored, fx, started, midLog, ser>>

\* a Promise.all none of whose promises has a catch
RatesRejectedByAny ==
    \/ MidToday.kind = "throw" \/ MidYesterday.kind = "throw"
    \/ \E c \in CallIds : calls[c].pc = "done" /\ calls[c].kind = "throw"

\* has one of the promises without a catch rejected
RatesRejected ==
    \/ MidToday.kind = "throw"
    \/ \E c \in 1 .. 3 : calls[c].pc = "done" /\ calls[c].kind = "throw"

\* Promise.all rejects as soon as one of them does: the catch block answers 500
RatesFail ==
    /\ req.pc = "waiting"
    /\ RatesRejected
    /\ req' = [req EXCEPT !.pc = "done", !.status = 500]
    /\ UNCHANGED <<web, now, ticks, cache, stored, calls, fx, started, midLog, ser>>

\* Promise.all fulfils once the eight promises have: the 200 answer
RatesReply ==
    /\ req.pc = "waiting"
    /\ ~RatesRejected
    /\ \A c \in CallIds : calls[c].pc = "done"
    /\ req' = [req EXCEPT !.pc = "done", !.status = 200,
                          !.body = RatesBody(MidToday.value, calls[1].value, calls[2].value,
                                             calls[3].value, CatchNull(MidYesterday),
                                             CatchNull(calls[4]), CatchNull(calls[5]),
                                             CatchNull(calls[6]), req.amount)]
    /\ UNCHANGED <<web, now, ticks, cache, stored, calls, fx, started, midLog, ser>>

\* the slots of the card calls of /api/rate/:provider: today's, and the day before's
TodaySlot(p) == CASE p = "mc" -> 1 [] p = "visa" -> 2 [] OTHER -> 3
YesterdaySlot(p) == TodaySlot(p) + 3

\* the body of the 200 answer of /api/rate/:provider, as the client reads it
SingleBody(rate, yesterdayRate, amount) ==
    [rate |-> Json(rate),
     converted |-> Json(JsMul(rate, Int2Js(amount))),
     dayDeltaPct |-> Json(IF Truthy(yesterdayRate) THEN DeltaPct(rate, yesterdayRate)
                          ELSE Null),
     unavailable |-> FALSE]

\* /api/rate/:provider up to its first await of a card call; with provider mid, whose
\* two getMidMarketRate calls touch no state of the process, up to its answer
RateStart(complete, provider, date, base, quote, q) ==
    /\ req.pc = "idle"
    /\ LET amount == ParseAmount(q)
           asked == [req EXCEPT !.endpoint = "rate", !.provider = provider, !.date = date,
                                !.base = base, !.quote = quote, !.amount = amount]
           mid == GetMidMarketRate(fx, date, base, quote)
           midYesterday == GetMidMarketRate(fx, YesterdayStr(date), base, quote)
       IN IF ~complete \/ provider \notin {"mid"} \cup Providers
          THEN /\ req' = [asked EXCEPT !.pc = "done", !.status = 400]
               /\ UNCHANGED <<web, calls, cache>>
          ELSE IF provider = "mid"
               THEN /\ req' = IF mid.kind = "throw"
                              THEN [asked EXCEPT !.pc = "done", !.status = 500]
                              ELSE [asked EXCEPT !.pc = "done", !.status = 200,
                                                 !.single = SingleBody(mid.value,
                                                                       CatchNull(midYesterday),
                                                                       amount)]
                    /\ UNCHANGED <<web, calls, cache>>
               ELSE /\ req' = [asked EXCEPT !.pc = "today"]
                    /\ CallBegun(TodaySlot(provider), provider, date, base, quote, amount)
    /\ UNCHANGED <<web, now, ticks, stored, fx, started, midLog, ser>>

\* the handler once the call for the date has settled: the 500 answer when it threw, the
\* unavailable answer when Amex gave null, else the head of the call for the day before
RateToday ==
    /\ req.pc = "today"
    /\ LET today == calls[TodaySlot(req.provider)]
       IN /\ today.pc = "done"
          /\ IF today.kind = "throw"
             THEN /\ req' = [req EXCEPT !.pc = "done", !.status = 500]
                  /\ UNCHANGED <<web, calls, cache>>
             ELSE IF req.provider = "amex" /\ IsUnavailable(today.value)
                  THEN /\ req' = [req EXCEPT !.pc = "done", !.status = 200,
                                             !.single = [NoSingle EXCEPT !.unavailable = TRUE]]
                       /\ UNCHANGED <<web, calls, cache>>
                  ELSE /\ req' = [req EXCEPT !.pc = "yesterday"]
                       /\ CallBegun(YesterdaySlot(req.provider), req.provider,
                                    YesterdayStr(req.date), req.base, req.quote, req.amount)
    /\ UNCHANGED <<web, now, ticks, stored, fx, started, midLog, ser>>

\* the handler once the call for the day before has settled: the 200 answer
RateYesterday ==
    /\ req.pc = "yesterday"
    /\ LET today == calls[TodaySlot(req.provider)]
           yesterday == calls[YesterdaySlot(req.provider)]
       IN /\ yesterday.pc = "done"
          /\ req' = [req EXCEPT !.pc = "done", !.status = 200,
                                !.single = SingleBody(today.value, CatchNull(yesterday),
                                                      req.amount)]
    /\ UNCHANGED <<web, now, ticks, cache, stored, calls, fx, started, midLog, ser>>

RateProviders == {"mid", "mc", "visa", "amex", "paypal"}

RatesAmounts == {Undefined, Str(Chars2), Str(CharsMinus2)}

\* Amex's ICC answer with the EURO settlement entry alone: USD -> JPY is unsupported
EuroEntryPayload == AmexPayload(<<AmexEntry("EURO", <<Variance("JPY", Str(Chars25))>>)>>)

RatesPayloads(p) ==
    CASE p = "mc"   -> {McPayload(Str(Chars3), Str(Chars4)), FailedPayload}
      [] p = "visa" -> {VisaPayload(Str(Chars3)), FailedPayload}
      [] p = "amex" -> {UsdEntryPayload(Str(Chars25)), EuroEntryPayload, FailedPayload}

RatesFx ==
    {[dated |-> [d \in {Friday, Saturday} |-> IF d = Saturday THEN a ELSE b],
      latest |-> FxOk(Table2)] :
        a \in {FxOk(Table1), FxFailed}, b \in {FxOk(Table2), FxFailed}}

InitRates ==
    /\ Quiet
    /\ calls = [c \in CallIds |-> IdleCall]
    /\ fx \in RatesFx

NextRates ==
    \/ \E complete \in BOOLEAN, q \in RatesAmounts :
          RatesStart(complete, Saturday, "USD", "JPY", q)
    \/ \E c \in CallIds : \E resp \in RatesPayloads(calls[c].p) : RateFinish(c, resp)
    \/ RatesFail
    \/ RatesReply
    \/ \E complete \in BOOLEAN, provider \in RateProviders, q \in RatesAmounts :
          RateStart(complete, provider, Saturday, "USD", "JPY", q)
    \/ RateToday
    \/ RateYesterday

SpecRates == InitRates /\ [][NextRates]_vars

\* C1: once /api/rates has answered, every provider whose fetch for the
\* requested date gave a rate has that rate in the answer, whatever became of the
\* other providers' fetches.
\* Does not hold: a rejection of the mid-market, Mastercard or Visa promise for the date
\* makes the answer a 500 without any rate.
C1_FailureIsolation ==
    (req.pc = "done" /\ req.endpoint = "rates" /\ req.status # 400) =>
        /\ MidToday.kind = "return" /\ IsFinite(MidToday.value) => req.body.mid = MidToday.value
        /\ \A c \in 1 .. 3 :
              (calls[c].pc = "done" /\ calls[c].kind = "return" /\ IsFinite(calls[c].value))
                 => req.body[RatesProvider(c)] = calls[c].value

\* the answer of /api/rates, or of /api/rate/:provider, with status 200
Answered(endpoint) == req.pc = "done" /\ req.endpoint = endpoint /\ req.status = 200

\* (x - y) / y * 100
PctOver(x, y) == JsMul(JsDiv(JsSub(x, y), y), Int2Js(100))

\* the call for the day before gave a rate
YesterdayAvailable(c) == calls[c].kind = "return" /\ IsFinite(calls[c].value)

\* the fields of the /api/rates body that belong to provider p
DeltaField(p) == CASE p = "mc" -> "mcDeltaPct" [] p = "visa" -> "visaDeltaPct"
                   [] OTHER -> "amexDeltaPct"
DayDeltaField(p) == CASE p = "mc" -> "mcDayDeltaPct" [] p = "visa" -> "visaDayDeltaPct"
                      [] OTHER -> "amexDayDeltaPct"
ConvertedField(p) == CASE p = "mc" -> "convertedMc" [] p = "visa" -> "convertedVisa"
                       [] OTHER -> "convertedAmex"

\* the day-over-day delta of today's call c: the percentage when the day before's rate is
\* available, else null
DayOverDay(c) ==
    IF YesterdayAvailable(c + 3) THEN PctOver(calls[c].value, calls[c + 3].value) ELSE Null

\* C14: in a 200 answer every card provider with a numeric rate has
\* deltaFromReferencePct = (providerRate - referenceRate) / referenceRate * 100 and
\* dayOverDayPct = (todayRate - yesterdayRate) / yesterdayRate * 100 when the rate of
\* the day before is available, null otherwise; the single-provider answer has the same
\* dayOverDayPct.
C14_Deltas ==
    /\ Answered("rates") =>
          \A c \in 1 .. 3 :
             IsFinite(calls[c].value) =>
                /\ req.body[DeltaField(calls[c].p)] = PctOver(calls[c].value, MidToday.value)
                /\ req.body[DayDeltaField(calls[c].p)] = DayOverDay(c)
    /\ (Answered("rate") /\ req.provider \in Providers /\ ~req.single.unavailable) =>
          LET c == TodaySlot(req.provider)
          IN IsFinite(calls[c].value) => req.single.dayDeltaPct = DayOverDay(c)

\* an /api/rates answer with Mastercard at 3 against a reference of 150 (-98 %), unchanged
\* since the day before, and Visa's call for the day before failed
C14_Witness ==
    /\ Answered("rates")
    /\ req.body.mcDeltaPct = Int2Js(-98)
    /\ req.body.mcDayDeltaPct = Int2Js(0)
    /\ calls[5].kind = "throw"
    /\ req.body.visaDayDeltaPct = Null

\* the fields of provider p in the /api/rates body are what its rate of call c makes them
Unaffected(c) ==
    LET p == calls[c].p
        rate == calls[c].value
    IN /\ req.body[p] = rate
       /\ req.body[ConvertedField(p)] = JsMul(rate, Int2Js(req.amount))
       /\ req.body[DeltaField(p)] = PctOver(rate, MidToday.value)
       /\ req.body[DayDeltaField(p)] = DayOverDay(c)

\* C15: when getAmexRate gave the null of an unsupported pair, the /api/rates answer has
\* amexUnavailable set, amex null, and amex's converted amount and two deltas null, with
\* the fields of Mastercard, Visa and the reference as their own rates make them; the
\* /api/rate/amex answer has unavailable set and no rate, converted amount or delta.
C15_UnsupportedSurfaced ==
    /\ (Answered("rates") /\ calls[3].value = Null) =>
          /\ req.body.amexUnavailable
          /\ req.body.amex = Null
          /\ req.body.convertedAmex = Null
          /\ req.body.amexDeltaPct = Null
          /\ req.body.amexDayDeltaPct = Null
          /\ Unaffected(1) /\ Unaffected(2)
          /\ req.body.mid = MidToday.value
    /\ (req.pc = "done" /\ req.endpoint = "rate" /\ req.provider = "amex"
          /\ calls[3].pc = "done" /\ calls[3].value = Null) =>
          /\ req.status = 200
          /\ req.single.unavailable
          /\ req.single.rate = Undefined
          /\ req.single.converted = Undefined
          /\ req.single.dayDeltaPct = Undefined

\* an /api/rates answer after Amex's answer held no entry for USD or JPY, Mastercard and
\* Visa at 3
C15_Witness ==
    /\ Answered("rates")
    /\ calls[3].why = "unsupported" /\ calls[3].resp = EuroEntryPayload
    /\ req.body.amexUnavailable
    /\ req.body.mc = Int2Js(3) /\ req.body.visa = Int2Js(3)

\* the fetch of the day before of slot c failed: the call threw, or Amex's fetch
\* function caught an error
YesterdayFailed(c) ==
    calls[c].pc = "done" /\ (calls[c].kind = "throw" \/ calls[c].why = "caught")

\* C16: a failed fetch for the day before never fails the request: a 500 answer comes
\* with a failed fetch for the requested date, and a 200 answer carries the rates of the
\* requested date and null for the day-over-day delta of each provider whose fetch for
\* the day before failed.
C16_YesterdayNotFatal ==
    /\ (req.pc = "done" /\ req.endpoint = "rates" /\ req.status # 400) =>
          /\ req.status = 500 =>
                \/ MidToday.kind = "throw"
                \/ \E c \in 1 .. 3 : calls[c].pc = "done" /\ calls[c].kind = "throw"
          /\ req.status = 200 =>
                /\ req.body.mid = MidToday.value
                /\ \A c \in 1 .. 3 :
                      /\ req.body[calls[c].p] = calls[c].value
                      /\ YesterdayFailed(c + 3) => req.body[DayDeltaField(calls[c].p)] = Null
                /\ MidYesterday.kind = "throw" => req.body.midDeltaPct = Null
    /\ (req.pc = "done" /\ req.endpoint = "rate" /\ req.status # 400) =>
          /\ req.status = 500 =>
                IF req.provider = "mid" THEN MidToday.kind = "throw"
                ELSE calls[TodaySlot(req.provider)].kind = "throw"
          /\ (req.status = 200 /\ req.provider = "mid" /\ MidYesterday.kind = "throw") =>
                req.single.rate = MidToday.value /\ req.single.dayDeltaPct = Null
          /\ (req.status = 200 /\ req.provider \in Providers
                /\ YesterdayFailed(YesterdaySlot(req.provider))) =>
                /\ req.single.rate = calls[TodaySlot(req.provider)].value
                /\ req.single.dayDeltaPct = Null

\* a 200 answer of /api/rates although the Mastercard, the Visa and the reference fetch
\* for the day before all failed
C16_Witness ==
    /\ Answered("rates")
    /\ calls[4].kind = "throw" /\ calls[5].kind = "throw" /\ MidYesterday.kind = "throw"
    /\ req.body.mc = Int2Js(3)
    /\ req.body.mcDayDeltaPct = Null /\ req.body.midDeltaPct = Null

-----------------------------------------------------------------------------
(* Specification SpecCards: getMastercardRate and getVisaRate over the     *)
(* answers the two providers may give, for amounts 0, 1 and 2.             *)

\* values of a field of the answer: absent, "3", "4", "0", "3x", "abc", "", the number 0
McTotals == {Undefined, Str(Chars3), Str(Chars0), Str(CharsAbc), Int2Js(0)}
McUnitRates == {Undefined, Str(Chars4), Str(CharsAbc), Int2Js(0)}
Chars3x == <<"3", "x">>
VisaFees ==
    {Undefined, Str(Chars3), Str(Chars0), Str(Chars3x), Str(CharsAbc), Str(<<>>), Int2Js(0)}

CardPayloads(p) ==
    CASE p = "mc"   -> {McPayload(bill, rate) : bill \in McTotals, rate \in McUnitRates}
                       \cup {NoDataPayload, FailedPayload}
      [] p = "visa" -> {VisaPayload(fee) : fee \in VisaFees} \cup {NoDataPayload, FailedPayload}
      [] OTHER      -> {FailedPayload}

CardAmounts == {0, 1, 2}

\* the quote currencies asked for against base USD: another currency, and USD itself
CardQuotes == {"JPY", "USD"}

InitCards ==
    /\ Quiet
    /\ calls = [c \in {1} |-> IdleCall]
    /\ fx = SteadyFx({Friday}, Table1)

NextCards ==
    \/ \E p \in {"mc", "visa"}, quote \in CardQuotes, amount \in CardAmounts :
          RateBegin(1, p, Friday, "USD", quote, amount)
    \/ \E resp \in CardPayloads(calls[1].p) : RateFinish(1, resp)

SpecCards == InitCards /\ [][NextCards]_vars

\* a getRate invocation of provider p that has settled after a fetch
SettledFetch(cl, p) == cl.pc = "done" /\ cl.p = p /\ cl.fetched

\* a field that is there and writes a number
IsParseable(x) == x.t # "undef" /\ ParseFloat(x).t = "num"

\* a field that is there, is neither the empty string nor zero as a number, and writes
\* a number
IsUsable(x) == Truthy(x) /\ ParseFloat(x).t = "num"

\* the invocation returned value v and left it in the cache
Delivered(cl, v) ==
    /\ cl.kind = "return" /\ cl.value = v
    /\ CacheHas(cache[cl.p], KeyOf(cl)) /\ CacheGet(cache[cl.p], KeyOf(cl)).value = v

\* the invocation threw and left nothing in the cache
Failed(cl) == cl.kind = "throw" /\ ~CacheHas(cache[cl.p], KeyOf(cl))

\* C12: getMastercardRate gives convertedTotal / amount when the converted total is
\* usable (there, not empty, not the number 0, writes a number) and amount > 0; else the
\* stated per-unit rate when that is usable; else it throws and returns no number.
C12_DirectConversion ==
    \A c \in DOMAIN calls :
        LET cl == calls[c]
            total == cl.resp.bill
            unit == cl.resp.rate
        IN SettledFetch(cl, "mc") =>
              IF cl.resp.ok /\ cl.resp.hasData /\ IsUsable(total) /\ cl.amount > 0
              THEN Delivered(cl, JsDiv(ParseFloat(total), Int2Js(cl.amount)))
              ELSE IF cl.resp.ok /\ cl.resp.hasData /\ IsUsable(unit)
                   THEN Delivered(cl, ParseFloat(unit))
                   ELSE Failed(cl)

\* C12, read with every total that writes a number, the number 0 included: such a total
\* and amount > 0 give convertedTotal / amount.
C12_AnyParseableTotal ==
    \A c \in DOMAIN calls :
        LET cl == calls[c]
            total == cl.resp.bill
            unit == cl.resp.rate
        IN SettledFetch(cl, "mc") =>
              IF cl.resp.ok /\ cl.resp.hasData /\ IsParseable(total) /\ cl.amount > 0
              THEN Delivered(cl, JsDiv(ParseFloat(total), Int2Js(cl.amount)))
              ELSE IF cl.resp.ok /\ cl.resp.hasData /\ IsParseable(unit)
                   THEN Delivered(cl, ParseFloat(unit))
                   ELSE Failed(cl)

\* amount 0 with a total of "3" and a per-unit rate of "4": the per-unit rate is returned
C12_Witness ==
    /\ SettledFetch(calls[1], "mc")
    /\ calls[1].amount = 0
    /\ calls[1].resp = McPayload(Str(Chars3), Str(Chars4))
    /\ calls[1].value = Int2Js(4)

\* a field that is a number, or a string that is the writing of a number from end to end
IsNumericField(x) ==
    \/ x.t = "num"
    \/ /\ x.t = "str"
       /\ ParseFloatStr(x.s).t = "num"
       /\ \A i \in 1 .. Len(x.s) : IsDigit(x.s[i]) \/ x.s[i] \in {".", "-"}

\* the rate of the fee-adjusted normalizer for converted amount fee
VisaRate(fee, amount) ==
    IF amount > 0 THEN JsDiv(ParseFloat(fee), Int2Js(amount)) ELSE ParseFloat(fee)

\* C13: getVisaRate gives convertedAmount / amount for amount > 0 and convertedAmount
\* for amount = 0 when the converted-amount-with-fee field is there and numeric;
\* when the field is absent or not numeric it throws and nothing is cached.
\* Does not hold: a string that only begins with the writing of a number is parsed up
\* to where the number ends and the result returned and cached; the number 0 fails the
\* truthiness test and getVisaRate throws.
C13_PresentAndNumeric ==
    \A c \in DOMAIN calls :
        LET cl == calls[c]
            fee == cl.resp.fee
        IN SettledFetch(cl, "visa") =>
              IF cl.resp.ok /\ cl.resp.hasData /\ IsNumericField(fee)
              THEN Delivered(cl, VisaRate(fee, cl.amount))
              ELSE Failed(cl)

\* C20: a getRate call of a card provider with base equal to quote returns exactly 1.0
\* and makes no call to the provider.
\* Does not hold: getMastercardRate and getVisaRate (and getAmexRate) have no case for
\* equal currencies, they ask the provider and return what its answer gives, or throw.
C20_SameCurrencyNoCall ==
    \A c \in DOMAIN calls :
        (calls[c].pc # "idle" /\ calls[c].base = calls[c].quote) =>
            /\ ~calls[c].fetched
            /\ calls[c].pc = "done" /\ calls[c].kind = "return" /\ calls[c].value = Int2Js(1)

-----------------------------------------------------------------------------
(* Specification SpecHistory: one GET /api/history request.  The handler   *)
(* starts getMidMarketSeries and the three card series together; each card *)
(* series awaits its getRate calls one day after the other (slots 1..3),   *)
(* and the handler answers when its Promise.all settles.                    *)

Chars1 == <<"1">>

\* parseInt(v, 10) of a decimal writing: the whole part of the number it begins with
ParseInt(v) ==
    LET f == ParseFloat(v)
    IN IF f.t # "num" THEN NaN
       ELSE IF f.n >= 0 THEN Int2Js(f.n \div f.d) ELSE Int2Js(-((-f.n) \div f.d))

\* Math.max(2, Math.min(60, parseInt(days || '30', 10) || 30))
ParseDays(days) ==
    LET given == ParseInt(IF Truthy(days) THEN days ELSE Str(<<"3", "0">>))
        n == IF Truthy(given) THEN given.n ELSE 30
    IN IF n < 2 THEN 2 ELSE IF n > 60 THEN 60 ELSE n

\* a Map from date strings to rates: a set of [d, rate] with distinct d
MapHas(map, d) == \E e \in map : e.d = d
MapGet(map, d) == (CHOOSE e \in map : e.d = d).rate

\* the rate getMidMarketSeries computes from the rates object of one day
SeriesRule(entries, base, quote) ==
    IF base = "EUR" THEN entries[quote]
    ELSE IF quote = "EUR" THEN JsDiv(Int2Js(1), entries[base])
    ELSE JsDiv(entries[quote], entries[base])

\* getMidMarketSeries, the reference provider answering answer: the Map it returns, or
\* the error it throws
GetMidMarketSeries(answer, base, quote) ==
    IF answer.status # "ok" THEN [kind |-> "throw", map |-> {}, calls |-> 1]
    ELSE IF base = quote
         THEN IF answer.hasRates
              THEN [kind |-> "return", map |-> {[d |-> d, rate |-> Int2Js(1)] : d \in answer.days},
                    calls |-> 1]
              ELSE [kind |-> "throw", map |-> {}, calls |-> 1]
         ELSE [kind |-> "return",
               map |-> {[d |-> d, rate |-> SeriesRule(answer.tables[d], base, quote)] :
                           d \in {d \in answer.days :
                                     /\ answer.hasRates
                                     /\ IsNumberNotNaN(SeriesRule(answer.tables[d], base,
                                                                  quote))}},
               calls |-> 1]

\* firstKnown: the rate of the first label the Map holds, null when it holds none
RECURSIVE FirstKnown(_, _, _)
FirstKnown(labels, map, i) ==
    IF i > Len(labels) THEN Null
    ELSE IF MapHas(map, labels[i]) THEN MapGet(map, labels[i])
    ELSE FirstKnown(labels, map, i + 1)

\* the loop that fills midSeries from label i on, `last` being the value carried
RECURSIVE MidSeriesFrom(_, _, _, _)
MidSeriesFrom(labels, map, i, last) ==
    IF i > Len(labels) THEN <<>>
    ELSE LET next == IF MapHas(map, labels[i]) THEN MapGet(map, labels[i]) ELSE last
         IN <<next>> \o MidSeriesFrom(labels, map, i + 1, next)

MidSeries(labels, map) == MidSeriesFrom(labels, map, 1, FirstKnown(labels, map, 1))

\* series.filter(v => v !== null)
RECURSIVE NonNull(_)
NonNull(series) ==
    IF series = <<>> THEN <<>>
    ELSE (IF series[1] = Null THEN <<>> ELSE <<series[1]>>) \o NonNull(Tail(series))

\* reduce((a, b) => a + b, 0)
RECURSIVE SumOf(_)
SumOf(series) == IF series = <<>> THEN Int2Js(0) ELSE JsAdd(SumOf(Tail(series)), series[1])

\* the average of the non-null entries
Avg(series) == JsDiv(SumOf(NonNull(series)), Int2Js(Len(NonNull(series))))

\* the body of the 200 answer of /api/history, as the client reads it
HistoryBody(midSeries, mcSeries, visaSeries, amexSeries) ==
    [mid |-> [i \in DOMAIN midSeries |-> Json(midSeries[i])],
     mc |-> [i \in DOMAIN mcSeries |-> Json(mcSeries[i])],
     visa |-> [i \in DOMAIN visaSeries |-> Json(visaSeries[i])],
     amex |-> [i \in DOMAIN amexSeries |-> Json(amexSeries[i])],
     mcAvgDeltaPct |-> Json(DeltaPct(Avg(mcSeries), Avg(midSeries))),
     visaAvgDeltaPct |-> Json(DeltaPct(Avg(visaSeries), Avg(midSeries))),
     amexAvgDeltaPct |-> Json(DeltaPct(Avg(amexSeries), Avg(midSeries)))]

\* the handler up to `await Promise.all`: the 400 answer when a parameter is missing,
\* else the request of getMidMarketSeries sent and each card series at the await of its
\* first getRate call
HistoryStart(complete, date, base, quote, days) ==
    /\ req.pc = "idle"
    /\ IF ~complete
       THEN /\ req' = [req EXCEPT !.pc = "done", !.endpoint = "history", !.status = 400]
            /\ UNCHANGED <<web, calls, cache>>
       ELSE \E numDays \in {ParseDays(days)} :
            \E start \in {ToDate(date) - (numDays - 1)}, end \in {ToDate(date)} :
            \E labels \in {DatesFrom(start, end)},
               dates \in {DatesFrom(ToDate(FmtDate(start)), ToDate(FmtDate(end)))} :
            LET run(p) == [IdleSeries EXCEPT !.pc = "await", !.p = p, !.i = 1,
                                             !.start = FmtDate(start), !.end = FmtDate(end),
                                             !.base = base, !.quote = quote, !.dates = dates]
            IN /\ req' = [req EXCEPT !.pc = "history", !.endpoint = "history",
                                     !.date = date, !.base = base, !.quote = quote,
                                     !.labels = labels, !.midPc = "pending",
                                     !.runs = [p \in Providers |-> run(p)]]
               /\ calls' = [c \in CallIds |->
                              IF c <= 3
                              THEN StartedCall(RatesProvider(c), dates[1], base, quote, 1,
                                               cache[RatesProvider(c)],
                                               stored[RatesProvider(c)], now)
                              ELSE IdleCall]
               /\ cache' = [p \in Providers |->
                              CacheLookup(cache[p], GetCacheKey(p, dates[1], base, quote, 1),
                                          now).map]
    /\ UNCHANGED <<web, now, ticks, stored, fx, started, midLog, ser>>

\* the request of getMidMarketSeries settles, the provider having answered answer; when
\* it throws, Promise.all rejects and the catch block answers 500
HistoryMid(answer) ==
    /\ req.midPc = "pending"
    /\ LET got == GetMidMarketSeries(answer, req.base, req.quote)
       IN req' = IF got.kind = "throw"
                 THEN [req EXCEPT !.midPc = "failed", !.midAnswer = answer,
                                  !.pc = "done", !.status = 500]
                 ELSE [req EXCEPT !.midPc = "done", !.midAnswer = answer,
                                  !.midMap = got.map]
    /\ UNCHANGED <<web, now, ticks, cache, stored, calls, fx, started, midLog, ser>>

\* the loop body of the card series of provider p after its awaited getRate call has
\* settled: the push, then the next day's call or the return of the series
HistorySeriesStep(p) ==
    /\ req.runs[p].pc = "await"
    /\ calls[TodaySlot(p)].pc = "done"
    /\ LET run == req.runs[p]
           call == calls[TodaySlot(p)]
           outcome == [date |-> call.date, kind |-> call.kind, value |-> call.value]
           lastGood == LastGoodAfter(run.lastGood, outcome)
           pushed == [run EXCEPT !.lastGood = lastGood,
                                 !.series = Append(run.series, lastGood),
                                 !.outcomes = Append(run.outcomes, outcome)]
       IN IF run.i = Len(run.dates)
          THEN /\ req' = [req EXCEPT !.runs[p] = [pushed EXCEPT !.pc = "done"]]
               /\ UNCHANGED <<web, calls, cache>>
          ELSE /\ req' = [req EXCEPT !.runs[p] = [pushed EXCEPT !.i = run.i + 1]]
               /\ CallBegun(TodaySlot(p), p, run.dates[run.i + 1], run.base, run.quote, 1)
    /\ UNCHANGED <<web, now, ticks, stored, fx, started, midLog, ser>>

\* Promise.all fulfils once the Map and the three series are there: the 200 answer
HistoryReply ==
    /\ req.pc = "history"
    /\ req.midPc = "done"
    /\ \A p \in Providers : req.runs[p].pc = "done"
    /\ req' = [req EXCEPT !.pc = "done", !.status = 200,
                          !.history = HistoryBody(MidSeries(req.labels, req.midMap),
                                                  req.runs["mc"].series,
                                                  req.runs["visa"].series,
                                                  req.runs["amex"].series)]
    /\ UNCHANGED <<web, now, ticks, cache, stored, calls, fx, started, midLog, ser>>

HistoryDays == {Str(Chars1), Str(Chars3)}

\* the days a history request ending on Saturday may span
HistorySpan == {<<2025, 1, 30>>, Friday, Saturday}

\* the table the reference provider holds for a day
HistoryTable(d) == IF d = Friday THEN Table2 ELSE Table1

\* the answers to the range request: the days it lists, a day without JPY, no rates at
\* all, a failure
RangeAnswers ==
    {RangeAnswer("ok", TRUE, days, [d \in HistorySpan |-> HistoryTable(d)]) :
        days \in {{}, {Friday}, {<<2025, 1, 30>>, Saturday}, HistorySpan}}
    \cup {RangeAnswer("ok", TRUE, HistorySpan,
                      [d \in HistorySpan |-> IF d = Friday THEN TablePartial ELSE Table1]),
          RangeAnswer("ok", FALSE, {}, [d \in HistorySpan |-> NoTable]),
          RangeAnswer("err", FALSE, {}, [d \in HistorySpan |-> NoTable])}

HistoryPayloads(p) ==
    CASE p = "mc"   -> {McPayload(Str(Chars3), Undefined), FailedPayload}
      [] p = "visa" -> {VisaPayload(Str(Chars3))}
      [] p = "amex" -> {UsdEntryPayload(Str(Chars25)),
                        AmexPayload(<<AmexEntry("EURO", <<Variance("JPY", Str(Chars25))>>)>>)}

InitHistory ==
    /\ Quiet
    /\ calls = [c \in CallIds |-> IdleCall]
    /\ fx = SteadyFx(HistorySpan, Table1)

NextHistory ==
    \/ \E complete \in BOOLEAN, days \in HistoryDays :
          HistoryStart(complete, Saturday, "USD", "JPY", days)
    \/ \E answer \in RangeAnswers : HistoryMid(answer)
    \/ \E c \in 1 .. 3 : \E resp \in HistoryPayloads(calls[c].p) : RateFinish(c, resp)
    \/ \E p \in Providers : HistorySeriesStep(p)
    \/ HistoryReply

SpecHistory == InitHistory /\ [][NextHistory]_vars

\* the entries of the Map dated on or before day d
UpTo(map, d) == {e \in map : OnOrBefore(e.d, d)}

\* the entry with the latest date of a non-empty set of entries
LatestEntry(S) == CHOOSE e \in S : \A f \in S : OnOrBefore(f.d, e.d)

\* C17: in the /api/history answer the reference series has one entry per label; entry i
\* is the rate of the latest date on or before label i that the Map of
\* getMidMarketSeries holds, and null for every label before the first date it holds.
\* Does not hold: the labels before the first date of the Map get the rate of that
\* first date.
C17_ReferenceCarryForward ==
    Answered("history") =>
        /\ Len(req.history.mid) = Len(req.labels)
        /\ \A i \in 1 .. Len(req.labels) :
              req.history.mid[i] =
                 IF UpTo(req.midMap, req.labels[i]) = {} THEN Null
                 ELSE LatestEntry(UpTo(req.midMap, req.labels[i])).rate

\* C18: no failed fetch of a provider, the reference provider included, fails the
\* /api/history request: it is answered with 200 and each card series holds the carried
\* value or null where a fetch failed.
\* Does not hold: getMidMarketSeries lets the failure of its request through and the
\* answer is a 500.
C18_FailuresSwallowed ==
    (req.pc = "done" /\ req.endpoint = "history" /\ req.status # 400) =>
        /\ req.status = 200
        /\ \A p \in Providers :
              \A i \in 1 .. Len(req.runs[p].series) :
                 ~IsGood(req.runs[p].outcomes[i]) =>
                    req.runs[p].series[i] = IF i = 1 THEN Null ELSE req.runs[p].series[i - 1]

-----------------------------------------------------------------------------
(* Specification SpecPage: independent callers of getVisaRate for two      *)
(* dates, with the browser session of visa-scraper.js: ensureBrowser at    *)
(* each of its awaits, the responses that arrive on a page, and            *)
(* closeBrowser (one closeBrowser call at a time).                         *)

Thursday == <<2025, 1, 30>>

\* what Visa answers to the request of expectedUrl, told by its exchange date: the
\* request is named by the cache key <<date, base, quote, amount>> of the call
VisaAnswer(key) ==
    IF key[1] = Friday THEN VisaPayload(Str(Chars3)) ELSE VisaPayload(Str(Chars4))

\* ensureBrowser finds a session: the negation of !sharedBrowser || !sharedPage
HasSession(w) == w.sharedBrowser # 0 /\ w.sharedPage # 0

\* ensureBrowser has returned pg to the call of slot c, which has called
\* page.waitForResponse and sent its fetch with page.evaluate
Registered(w, c, pg) ==
    [w EXCEPT !.at[c] = "response", !.page[c] = pg, !.shared[c] = w.sharedBrowser,
              !.pending[c] = TRUE, !.got[c] = <<>>]

\* the call of slot c has left getVisaRateViaPlaywright
Released(w, c) ==
    [w EXCEPT !.at[c] = "none", !.own[c] = 0, !.page[c] = 0, !.shared[c] = 0,
              !.pending[c] = FALSE, !.got[c] = <<>>]

\* getVisaRateViaPlaywright of slot c hands api to getVisaRate, whose tail runs; w is
\* the session it leaves
ViaPlaywrightReturn(c, api, resp, w) ==
    /\ calls' = Settle(c, FinishedCall(calls[c], api, resp))
    /\ cache' = [cache EXCEPT !["visa"] = StoredMap(cache["visa"], calls[c], api, now)]
    /\ stored' = [stored EXCEPT !["visa"] = StoredMap(stored["visa"], calls[c], api, now)]
    /\ web' = Released(w, c)

\* an exception inside getVisaRateViaPlaywright: its catch block returns null
ViaPlaywrightCaught(c) == ViaPlaywrightReturn(c, Fetched(Null, "caught"), FailedPayload, web)

\* the head of getVisaRate(date, 'USD', 'JPY', 1) in slot c: the lookup and, on a miss,
\* getVisaRateViaPlaywright up to its first await that waits for the browser:
\* with a session, page.waitForResponse and page.evaluate on sharedPage; without one,
\* the launch
VisaBegin(c, date) ==
    /\ calls[c].pc \in {"idle", "done"}
    /\ \A b \in 1 .. c - 1 : calls[b].pc # "idle"
    /\ started < MaxStarted
    /\ started' = started + 1
    /\ CallBegun(c, "visa", date, "USD", "JPY", 1)
    /\ web' = IF CacheLookup(cache["visa"], GetCacheKey("visa", date, "USD", "JPY", 1), now).hit
              THEN web
              ELSE IF HasSession(web) THEN Registered(web, c, web.sharedPage)
                   ELSE [web EXCEPT !.at[c] = "launch"]
    /\ UNCHANGED <<now, ticks, stored, fx, midLog, ser, req>>

\* ensureBrowser: launchBrowser() resolves, sharedBrowser is assigned the new browser
\* and its context and page are asked for
EnsureBrowserLaunched(c) ==
    /\ web.at[c] = "launch"
    /\ web' = [web EXCEPT !.launched = @ + 1, !.open = @ \cup {web.launched + 1},
                          !.sharedBrowser = web.launched + 1,
                          !.own[c] = web.launched + 1, !.at[c] = "newPage"]
    /\ UNCHANGED <<now, ticks, cache, stored, calls, fx, started, midLog, ser, req>>

\* ensureBrowser: context.newPage() resolves, sharedPage is assigned and goto is called
\* on it; it rejects when the browser has been closed
EnsureBrowserNewPage(c) ==
    /\ web.at[c] = "newPage"
    /\ IF web.own[c] \in web.open
       THEN /\ web' = [web EXCEPT !.sharedPage = web.own[c], !.at[c] = "goto"]
            /\ UNCHANGED <<cache, stored, calls>>
       ELSE ViaPlaywrightCaught(c)
    /\ UNCHANGED <<now, ticks, fx, started, midLog, ser, req>>

\* ensureBrowser: goto resolves and waitForTimeout is called on what sharedPage is now
EnsureBrowserGoto(c) ==
    /\ web.at[c] = "goto"
    /\ IF web.own[c] \in web.open /\ web.sharedPage \in web.open
       THEN /\ web' = [web EXCEPT !.page[c] = web.sharedPage, !.at[c] = "timeout"]
            /\ UNCHANGED <<cache, stored, calls>>
       ELSE ViaPlaywrightCaught(c)
    /\ UNCHANGED <<now, ticks, fx, started, midLog, ser, req>>

\* ensureBrowser: waitForTimeout resolves and what sharedPage is now is returned;
\* getVisaRateViaPlaywright calls waitForResponse and evaluate on it
EnsureBrowserReturn(c) ==
    /\ web.at[c] = "timeout"
    /\ IF web.page[c] \in web.open /\ web.sharedPage \in web.open
       THEN /\ web' = Registered(web, c, web.sharedPage)
            /\ UNCHANGED <<cache, stored, calls>>
       ELSE ViaPlaywrightCaught(c)
    /\ UNCHANGED <<now, ticks, fx, started, midLog, ser, req>>

\* the response to the fetch of slot c arrives on its page, with status 200 (ok) or
\* another: page.evaluate of slot c resolves, and a 200 resolves every waitForResponse
\* that is waiting on that page, the predicate looking at the path and the status only
PageResponse(c, ok) ==
    /\ web.at[c] = "response"
    /\ web.pending[c]
    /\ web.page[c] \in web.open
    /\ web' = [web EXCEPT
                 !.pending[c] = FALSE,
                 !.got = [b \in CallIds |->
                            IF /\ ok /\ web.at[b] = "response"
                               /\ web.page[b] = web.page[c] /\ web.got[b] = <<>>
                            THEN KeyOf(calls[c]) ELSE web.got[b]]]
    /\ UNCHANGED <<now, ticks, cache, stored, calls, fx, started, midLog, ser, req>>

\* getVisaRateViaPlaywright goes on after its two awaits: with the response its
\* waitForResponse resolved with, or into the catch block when the page was closed or
\* waitForResponse timed out
ViaPlaywrightResume(c) ==
    /\ web.at[c] = "response"
    /\ web.page[c] \notin web.open \/ ~web.pending[c]
    /\ LET resp == IF web.page[c] \in web.open /\ web.got[c] # <<>>
                   THEN VisaAnswer(web.got[c]) ELSE FailedPayload
       IN ViaPlaywrightReturn(c, GetVisaRateViaPlaywright(resp, calls[c].amount), resp, web)
    /\ UNCHANGED <<now, ticks, fx, started, midLog, ser, req>>

\* closeBrowser: sharedBrowser is there, and its close() is awaited
CloseBrowserBegin ==
    /\ web.sharedBrowser # 0
    /\ web.closing = 0
    /\ web' = [web EXCEPT !.closing = web.sharedBrowser]
    /\ UNCHANGED <<now, ticks, cache, stored, calls, fx, started, midLog, ser, req>>

\* closeBrowser: close() resolves, sharedBrowser and sharedPage are set to null
CloseBrowserDone ==
    /\ web.closing # 0
    /\ web' = [web EXCEPT !.open = @ \ {web.closing}, !.sharedBrowser = 0,
                          !.sharedPage = 0, !.closing = 0]
    /\ UNCHANGED <<now, ticks, cache, stored, calls, fx, started, midLog, ser, req>>

PageDates == {Thursday, Friday}

InitPage ==
    /\ Quiet
    /\ calls = [c \in 1 .. MaxCalls |-> IdleCall]
    /\ fx = SteadyFx({Friday}, Table1)

NextPage ==
    \/ \E c \in 1 .. MaxCalls, date \in PageDates : VisaBegin(c, date)
    \/ \E c \in 1 .. MaxCalls : EnsureBrowserLaunched(c)
    \/ \E c \in 1 .. MaxCalls : EnsureBrowserNewPage(c)
    \/ \E c \in 1 .. MaxCalls : EnsureBrowserGoto(c)
    \/ \E c \in 1 .. MaxCalls : EnsureBrowserReturn(c)
    \/ \E c \in 1 .. MaxCalls, ok \in BOOLEAN : PageResponse(c, ok)
    \/ \E c \in 1 .. MaxCalls : ViaPlaywrightResume(c)
    \/ CloseBrowserBegin
    \/ CloseBrowserDone

SpecPage == InitPage /\ [][NextPage]_vars

\* C23: a getVisaRate call that settles with a rate has computed it from Visa's answer
\* to its own request, and every entry of Visa's cache holds the rate that Visa's
\* answer to the request of the entry's key gives.
\* Does not hold: waitForResponse accepts any 200 response of /cmsapi/fx/rates on the
\* shared page, so that two calls in flight both resolve with the response that
\* arrives first; one of them returns the rate of the other's date and stores it under
\* its own key.
C23_OwnResponse ==
    /\ \A c \in DOMAIN calls :
          (calls[c].pc = "done" /\ calls[c].fetched /\ calls[c].why = "rate")
             => calls[c].resp = VisaAnswer(KeyOf(calls[c]))
    /\ \A e \in cache["visa"] :
          e.value = GetVisaRateViaPlaywright(VisaAnswer(e.key), e.key[4]).value

\* C26: at most one browser is launched and not closed; the page ensureBrowser
\* returned to a call is the page of the browser that sharedBrowser recorded then; and
\* every browser that is launched and not closed is the one sharedBrowser records or
\* the one closeBrowser is closing.
\* Does not hold: two ensureBrowser calls that both find no session both launch; the
\* second assignment of sharedBrowser leaves the first browser open and unrecorded,
\* and sharedPage may end as a page of either browser.
C26_LazySingleton ==
    /\ Cardinality(web.open) <= 1
    /\ \A c \in DOMAIN calls : web.at[c] = "response" => web.page[c] = web.shared[c]
    /\ web.open \subseteq {web.sharedBrowser, web.closing}

====
